---- MODULE Spec2Model ----
(***************************************************************************)
(* Model of the pricing-distribution analysis engine of                    *)
(* src/auction_analyzer.py (class PhoenixAuctionAssistant):                *)
(*   _analyze_price_distribution  keyword / floor / IQR cleaning,          *)
(*                                percentiles, rounding, tie-break         *)
(*   get_percentile, smart_round, small_round   its nested helpers         *)
(*   calculate_bid                the bid formula of                       *)
(*                                calculate_recommended_bid                *)
(*                                                                         *)
(* Money is an integer number of ticks, 1 tick = 1/10000 dollar.  Listing  *)
(* prices are whole cents (multiples of 100 ticks), so every percentile    *)
(* (weights are hundredths) and every mean of one or two prices is an      *)
(* exact integer of ticks.  The Python code computes in binary floating    *)
(* point; the model computes the same expressions in exact arithmetic.     *)
(* Text (titles, part names, keywords) is a sequence of one-character      *)
(* strings, so that lower() and the substring test are computed.           *)
(***************************************************************************)
EXTENDS Integers, Sequences, FiniteSets, TLC

VARIABLES
    pc,             \* "call": inputs drawn, "done": the function has returned
    raw_prices,     \* _analyze_price_distribution: argument raw_prices
    raw_titles,     \*   argument raw_titles
    part_name,      \*   argument part_name
    minimum_price,  \*   argument minimum_price
    locals,         \*   its local variables as they stood after each stage
    result,         \*   the dict it returned
    data,           \* get_percentile: argument data (ascending)
    percentile,     \*   argument percentile
    pct_value,      \*   its return value
    price,          \* smart_round / small_round: argument price
    n,              \*   the cleaned count that selects the rounding function
    rounded,        \*   the rounded tier
    parts_value,    \* calculate_bid: argument parts_value
    bid,            \*   its return value
    parts_prices,   \* calculate_recommended_bid: argument parts_prices
    totals,         \*   the 'totals' of the dict it returned
    bids,           \*   the 'bids' of the dict it returned
    use_ai_analysis,\* _analyze_prices_with_ai: self.use_ai_analysis
    gemini_model,   \*   self.gemini_model, None when not configured
    raw_items,      \*   argument raw_items (part_name, minimum_price as above)
    attempt,        \*   the loop variable of the retry loop
    model_calls,    \*   the generate_content calls made, by outcome
    response,       \*   the local response, once a call has returned
    exception,      \*   the exception that left the call, if one did
    ebay_access_token,  \* search_ebay_parts: self.ebay_access_token
    parts_list,         \*   self.parts_list
    use_concurrent,     \*   the local use_concurrent
    loop_i,             \*   i, the index of the sequential loop (from 1)
    futures,            \*   the state of each submitted future
    part_searches,      \*   what each finished search met and returned
    raw_search_results, \*   self.raw_search_results
    results_text,       \* _analyze_prices_with_ai: the lines in self.results_text
    vin_history,        \* self.vin_history: the timestamps of its entries
    index_file,         \*   vin_history/index.json: whether it exists, its entries
    entry_files,        \*   the analysis files of the directory, newest first
    scans,              \*   the scans completed since the model began
    removals            \*   the removals confirmed since the model began

analyzeVars == <<raw_prices, raw_titles, part_name, minimum_price, locals, result>>
percentileVars == <<data, percentile, pct_value>>
roundVars == <<price, n, rounded>>
bidVars == <<parts_value, bid>>
recommendVars == <<parts_prices, totals, bids>>
aiVars == <<use_ai_analysis, gemini_model, raw_items, attempt, model_calls, response,
            exception>>
scanVars == <<ebay_access_token, parts_list, use_concurrent, loop_i, futures, part_searches,
              raw_search_results, results_text>>
historyVars == <<vin_history, index_file, entry_files, scans, removals>>
vars == <<pc, analyzeVars, percentileVars, roundVars, bidVars, recommendVars, aiVars,
          scanVars, historyVars>>

\* The value of a variable no call has set.
None == "None"

----------------------------------------------------------------------------
(* Bounds of the model *)

\* The longest listing list handed to _analyze_price_distribution.
MaxListings == 11
\* The longest price list handed to get_percentile on its own.
MaxData == 4
\* smart_round / small_round are applied to every quarter dollar up to this.
MaxRoundDollars == 650
\* calculate_bid is applied to the excess values 1.5 * r^2 dollars, r <= MaxRoot.
MaxRoot == 100
\* _analyze_prices_with_ai is called with up to this many listings.
MaxItems == 3
\* search_ebay_parts is called with up to this many parts.
MaxParts == 3
\* The longest list of closely priced listings handed to
\* _analyze_price_distribution.
MaxNear == 4
\* The directory of the history holds up to max_history + MaxExcess entries
\* when the program starts.
MaxExcess == 2
\* Up to this many scans are completed and added to the history.
MaxScans == 3
\* Up to this many removals from the history are confirmed.
MaxRemovals == 2

----------------------------------------------------------------------------
(* Arithmetic *)

\* d dollars in ticks.
Dollars(d) == d * 10000

Min2(a, b) == IF a <= b THEN a ELSE b
Max2(a, b) == IF a >= b THEN a ELSE b

\* Python's built-in min() / max() of a non-empty list.
MinOf(s) == CHOOSE x \in {s[i] : i \in 1..Len(s)} : \A i \in 1..Len(s) : x <= s[i]
MaxOf(s) == CHOOSE x \in {s[i] : i \in 1..Len(s)} : \A i \in 1..Len(s) : x >= s[i]

RECURSIVE SumSeq(_)
SumSeq(s) == IF s = <<>> THEN 0 ELSE Head(s) + SumSeq(Tail(s))

\* Python's sorted(): ascending, by insertion.
RECURSIVE Insert(_, _)
Insert(x, s) ==
    IF s = <<>> THEN <<x>>
    ELSE IF x <= Head(s) THEN <<x>> \o s
    ELSE <<Head(s)>> \o Insert(x, Tail(s))

RECURSIVE sorted(_)
sorted(s) == IF s = <<>> THEN <<>> ELSE Insert(Head(s), sorted(Tail(s)))

\* Python 3's round(x / step) * step for x >= 0 ticks and a step in dollars:
\* to the nearest multiple, an exact half going to the even multiple.
RoundToMultiple(x, step) ==
    LET m == Dollars(step)
        q == x \div m
        r == x % m
    IN  IF 2 * r < m THEN q * m
        ELSE IF 2 * r > m THEN (q + 1) * m
        ELSE IF q % 2 = 0 THEN q * m ELSE (q + 1) * m

----------------------------------------------------------------------------
(* Text *)

UpperCase == <<"A","B","C","D","E","F","G","H","I","J","K","L","M",
               "N","O","P","Q","R","S","T","U","V","W","X","Y","Z">>
LowerCase == <<"a","b","c","d","e","f","g","h","i","j","k","l","m",
               "n","o","p","q","r","s","t","u","v","w","x","y","z">>

\* str.lower() on the characters the model uses.
lower(s) ==
    [i \in 1..Len(s) |->
        IF \E k \in 1..26 : UpperCase[k] = s[i]
        THEN LowerCase[CHOOSE k \in 1..26 : UpperCase[k] = s[i]]
        ELSE s[i]]

\* Python's `keyword in title` on strings: keyword occurs as a substring.
Contains(title, keyword) ==
    \E i \in 0..(Len(title) - Len(keyword)) :
        \A j \in 1..Len(keyword) : title[i + j] = keyword[j]

\* The dict suspicious_keywords of _analyze_price_distribution.
suspicious_keywords ==
       (<<"e","n","g","i","n","e">> :> <<<<"o","i","l"," ","f","i","l","t","e","r">>,
          <<"h","o","u","s","i","n","g">>,
          <<"g","a","s","k","e","t">>,
          <<"s","e","a","l">>,
          <<"s","e","n","s","o","r">>,
          <<"v","a","l","v","e"," ","c","o","v","e","r">>,
          <<"d","i","p","s","t","i","c","k">>,
          <<"b","r","a","c","k","e","t">>,
          <<"m","o","u","n","t">>,
          <<"b","e","l","t">>,
          <<"p","u","l","l","e","y">>>>)
    @@ (<<"a","l","t","e","r","n","a","t","o","r">> :> <<<<"b","r","u","s","h">>,
          <<"p","u","l","l","e","y">>,
          <<"w","i","r","e">>,
          <<"c","o","n","n","e","c","t","o","r">>,
          <<"r","e","g","u","l","a","t","o","r">>,
          <<"b","e","l","t">>>>)
    @@ (<<"t","r","a","n","s","m","i","s","s","i","o","n">> :> <<<<"f","l","u","i","d">>,
          <<"f","i","l","t","e","r">>,
          <<"g","a","s","k","e","t">>,
          <<"c","o","o","l","e","r">>,
          <<"m","o","u","n","t">>,
          <<"l","i","n","e">>>>)
    @@ (<<"s","t","a","r","t","e","r">> :> <<<<"s","o","l","e","n","o","i","d">>,
          <<"b","r","u","s","h">>,
          <<"d","r","i","v","e">>,
          <<"g","e","a","r">>,
          <<"b","o","l","t">>>>)
    @@ (<<"b","r","a","k","e"," ","c","a","l","i","p","e","r">> :> <<<<"p","a","d">>,
          <<"r","o","t","o","r">>,
          <<"d","i","s","c">>,
          <<"f","l","u","i","d">>,
          <<"l","i","n","e">>,
          <<"h","o","s","e">>>>)
    @@ (<<"f","u","e","l"," ","p","u","m","p">> :> <<<<"f","i","l","t","e","r">>,
          <<"l","i","n","e">>,
          <<"h","o","s","e">>,
          <<"t","a","n","k">>,
          <<"s","e","n","d","i","n","g"," ","u","n","i","t">>>>)
    @@ (<<"h","e","a","d","l","i","g","h","t">> :> <<<<"b","u","l","b">>,
          <<"b","a","l","l","a","s","t">>,
          <<"w","i","r","e">>,
          <<"c","o","n","n","e","c","t","o","r">>,
          <<"l","e","n","s">>,
          <<"c","o","v","e","r">>>>)

\* suspicious_keywords.get(part_name.lower(), [])
keywords_to_check(name) ==
    IF lower(name) \in DOMAIN suspicious_keywords
    THEN suspicious_keywords[lower(name)]
    ELSE <<>>

\* The keyword test on the title as written, without lower().
is_suspicious_case_sensitive(title, kws) ==
    IF kws = <<>> THEN FALSE
    ELSE \E k \in 1..Len(kws) : Contains(title, kws[k])

\* any(keyword in title for keyword in keywords_to_check), title lower-cased
is_suspicious(title, kws) ==
    IF kws = <<>> THEN FALSE
    ELSE \E t \in {lower(title)} : \E k \in 1..Len(kws) : Contains(t, kws[k])

----------------------------------------------------------------------------
(* _analyze_price_distribution *)

\* title = raw_titles[i].lower() if raw_titles and i < len(raw_titles) else ""
\* (i is 1-based here; the lower() is applied in is_suspicious)
title_at(titles, i) == IF titles # <<>> /\ i <= Len(titles) THEN titles[i] ELSE <<>>

\* Step 1: is_suspicious of every listing, by index, for the keywords of the part.
suspicious_flags(prices, titles, kws) ==
    [i \in 1..Len(prices) |-> is_suspicious(title_at(titles, i), kws)]

\* The prices the keyword loop keeps, and its removal notes.
keyword_kept(prices, flags) ==
    LET kept == SelectSeq([i \in 1..Len(prices) |-> i], LAMBDA i : ~flags[i])
    IN  [k \in 1..Len(kept) |-> prices[kept[k]]]

keyword_removed(prices, flags) ==
    LET gone == SelectSeq([i \in 1..Len(prices) |-> i], LAMBDA i : flags[i])
    IN  [k \in 1..Len(gone) |-> <<prices[gone[k]], "Miscategorized">>]

\* The floor that also removes a price equal to the minimum.
floor_stage_strict(cleaned, minp) ==
    IF minp > 0 THEN SelectSeq(cleaned, LAMBDA p : p > minp) ELSE cleaned

\* Step 2: the minimum price of the part.
floor_stage(cleaned, minp) ==
    IF minp > 0 THEN SelectSeq(cleaned, LAMBDA p : p >= minp) ELSE cleaned

floor_removed(cleaned, minp) ==
    IF minp > 0
    THEN LET gone == SelectSeq(cleaned, LAMBDA p : ~(p >= minp))
         IN  [k \in 1..Len(gone) |-> <<gone[k], "Below minimum">>]
    ELSE <<>>

\* Step 3: the IQR bounds <<lower_bound, upper_bound>>, doubled (q1 - 1.5*iqr
\* and q3 + 1.5*iqr times 2), from array positions of the sorted list.
iqr_bounds(cleaned) ==
    LET sorted_prices == sorted(cleaned)
        q1_idx == Len(sorted_prices) \div 4
        q3_idx == (3 * Len(sorted_prices)) \div 4
        q1 == sorted_prices[q1_idx + 1]
        q3 == sorted_prices[q3_idx + 1]
        iqr == q3 - q1
    IN  <<2 * q1 - 3 * iqr, 2 * q3 + 3 * iqr>>

\* price < lower_bound or price > upper_bound
iqr_outlier(p, bounds) == 2 * p < bounds[1] \/ 2 * p > bounds[2]

\* The threshold off by one: more than 10 prices.
iqr_applies_above_ten(cleaned) == Len(cleaned) > 10

\* Line 1487: if len(cleaned_prices) >= 10
iqr_applies(cleaned) == Len(cleaned) >= 10

iqr_stage(cleaned) ==
    IF iqr_applies(cleaned)
    THEN LET bounds == iqr_bounds(cleaned)
         IN  SelectSeq(cleaned, LAMBDA p : ~iqr_outlier(p, bounds))
    ELSE cleaned

iqr_removed(cleaned) ==
    IF iqr_applies(cleaned)
    THEN LET bounds == iqr_bounds(cleaned)
             gone == SelectSeq(cleaned, LAMBDA p : iqr_outlier(p, bounds))
         IN  [k \in 1..Len(gone) |-> <<gone[k], "Statistical outlier">>]
    ELSE <<>>

\* No interpolation: the value at the truncated index.
get_percentile_truncated(d, p) ==
    IF Len(d) = 1 THEN d[1]
    ELSE d[(p * (Len(d) - 1)) \div 100 + 1]

\* get_percentile(data, percentile): index = percentile/100 * (len - 1) is kept
\* in hundredths; int(index) truncates; list indexes are 1-based here.
get_percentile(d, p) ==
    IF Len(d) = 1 THEN d[1]
    ELSE LET index == p * (Len(d) - 1)
             lower_index == index \div 100
             upper_index == Min2(lower_index + 1, Len(d) - 1)
             weight == index - 100 * lower_index
         IN  (d[lower_index + 1] * (100 - weight) + d[upper_index + 1] * weight) \div 100

\* int() in place of round(): the multiple below.
smart_round_down(p) ==
    IF p < Dollars(100) THEN (p \div Dollars(5)) * Dollars(5)
    ELSE IF p < Dollars(500) THEN (p \div Dollars(10)) * Dollars(10)
    ELSE (p \div Dollars(25)) * Dollars(25)

smart_round(p) ==
    IF p < Dollars(100) THEN RoundToMultiple(p, 5)
    ELSE IF p < Dollars(500) THEN RoundToMultiple(p, 10)
    ELSE RoundToMultiple(p, 25)

\* The increments $1 / $10 / $25 in place of $1 / $5 / $10.
small_round_coarse(p) ==
    IF p < Dollars(50) THEN RoundToMultiple(p, 1)
    ELSE IF p < Dollars(200) THEN RoundToMultiple(p, 10)
    ELSE RoundToMultiple(p, 25)

small_round(p) ==
    IF p < Dollars(50) THEN RoundToMultiple(p, 1)
    ELSE IF p < Dollars(200) THEN RoundToMultiple(p, 5)
    ELSE RoundToMultiple(p, 10)

\* The rounding function applied to a tier: small_round replaces smart_round
\* when fewer than 10 cleaned prices remain.
round_tier(p, count) == IF count < 10 THEN small_round(p) ELSE smart_round(p)

\* The percentiles of the large dataset taken whatever the count.
tier_percentiles_large(count) == <<10, 30, 50>>

\* The percentiles taken for the three tiers.
tier_percentiles(count) == IF count < 10 THEN <<5, 25, 50>> ELSE <<10, 30, 50>>

\* The tie-break step size for a price range.
tie_step(price_range) ==
    IF price_range < Dollars(50) THEN Dollars(5)
    ELSE IF price_range < Dollars(200) THEN Dollars(10)
    ELSE Dollars(25)

\* The separation step lowering the budget tier only.
separate_tiers_low_only(tiers, lowest, highest, count) ==
    IF tiers[1] = tiers[2] /\ tiers[2] = tiers[3] /\ count >= 3
       /\ highest - lowest > Dollars(10)
    THEN <<Max2(tiers[1] - tie_step(highest - lowest), lowest), tiers[2], tiers[3]>>
    ELSE tiers

\* Lines 1561-1574: <<budget_tier, standard_tier, premium_tier>> after the
\* separation step, given min(sorted_prices), max(sorted_prices) and n.
separate_tiers(tiers, lowest, highest, count) ==
    IF tiers[1] = tiers[2] /\ tiers[2] = tiers[3] /\ count >= 3
       /\ highest - lowest > Dollars(10)
    THEN <<Max2(tiers[1] - tie_step(highest - lowest), lowest),
           tiers[2],
           tiers[3] + tie_step(highest - lowest)>>
    ELSE tiers

tie_break(tiers, sorted_prices) ==
    separate_tiers(tiers, MinOf(sorted_prices), MaxOf(sorted_prices), Len(sorted_prices))

FirstN(s, k) == SubSeq(s, 1, Min2(k, Len(s)))

\* Lines 1524-1559: the raw percentiles and the rounded tiers of the sorted
\* cleaned prices, <<raw_p10, raw_p30, raw_p50>> and <<budget, standard, premium>>.
raw_percentiles(sorted_prices) ==
    LET ps == tier_percentiles(Len(sorted_prices))
    IN  <<get_percentile(sorted_prices, ps[1]), get_percentile(sorted_prices, ps[2]),
          get_percentile(sorted_prices, ps[3])>>

rounded_tiers(raw, count) ==
    <<round_tier(raw[1], count), round_tier(raw[2], count), round_tier(raw[3], count)>>

\* Lines 1576-1588: the dict returned on the percentile path.
percentile_result(original_count, cleaned_prices, removed_items, minp, raw, final) ==
    [low |-> final[1], average |-> final[2], high |-> final[3],
     raw_p10 |-> raw[1], raw_p30 |-> raw[2], raw_p50 |-> raw[3],
     items_removed |-> original_count - Len(cleaned_prices),
     cleaned_count |-> Len(cleaned_prices),
     removed_details |-> FirstN(removed_items, 3),
     final_range |-> MaxOf(cleaned_prices) - MinOf(cleaned_prices),
     minimum_price |-> minp]

\* Lines 1510-1588, with the sorted prices, percentiles and tiers in hand.
percentile_path(original_count, stages, removed_items, minp, sorted_prices, raw, tiers) ==
    [result |-> percentile_result(original_count, stages.cleaned_prices, removed_items,
                                  minp, raw, tie_break(tiers, sorted_prices)),
     locals |-> [path |-> "percentile", n |-> Len(sorted_prices), rounded |-> tiers]
                @@ stages]

tiers_of_sorted(original_count, stages, removed_items, minp, sorted_prices, raw) ==
    percentile_path(original_count, stages, removed_items, minp, sorted_prices, raw,
                    rounded_tiers(raw, Len(sorted_prices)))

\* An empty cleaned list reported with nothing removed.
analyze_cleaned_uncounted(original_count, stages, removed_items, minp) ==
    IF stages.cleaned_prices = <<>> THEN
        [result |-> [low |-> 0, average |-> 0, high |-> 0,
                     items_removed |-> 0, cleaned_count |-> 0],
         locals |-> [path |-> "excluded"] @@ stages]
    ELSE
        LET sorted_prices == sorted(stages.cleaned_prices)
        IN  tiers_of_sorted(original_count, stages, removed_items, minp, sorted_prices,
                            raw_percentiles(sorted_prices))

\* Lines 1507-1588: the cleaned prices are known.
analyze_cleaned(original_count, stages, removed_items, minp) ==
    IF stages.cleaned_prices = <<>> THEN
        [result |-> [low |-> 0, average |-> 0, high |-> 0,
                     items_removed |-> original_count, cleaned_count |-> 0],
         locals |-> [path |-> "excluded"] @@ stages]
    ELSE
        LET sorted_prices == sorted(stages.cleaned_prices)
        IN  tiers_of_sorted(original_count, stages, removed_items, minp, sorted_prices,
                            raw_percentiles(sorted_prices))

\* Lines 1446-1505: the three cleaning stages, each on the output of the one
\* before, and the removal notes in the order they are appended.
clean_from_floor(prices, minp, after_keyword, after_floor, removed12) ==
    analyze_cleaned(Len(prices),
                    [after_keyword |-> after_keyword, after_floor |-> after_floor,
                     cleaned_prices |-> iqr_stage(after_floor)],
                    removed12 \o iqr_removed(after_floor), minp)

clean_from_keyword(prices, minp, flags, after_keyword) ==
    clean_from_floor(prices, minp, after_keyword, floor_stage(after_keyword, minp),
                     keyword_removed(prices, flags) \o floor_removed(after_keyword, minp))

clean_with_flags(prices, minp, flags) ==
    clean_from_keyword(prices, minp, flags, keyword_kept(prices, flags))

\* The shortcut taken for one listing only.
too_few_below_two(prices) == Len(prices) < 2

\* Line 1442: fewer than 3 listings take the mean, unfiltered.
too_few(prices) == Len(prices) < 3

\* The whole function: the dict it returns and the locals it went through.
analyze_price_distribution(prices, titles, name, minp) ==
    IF prices = <<>> THEN
        [result |-> [low |-> 0, average |-> 0, high |-> 0,
                     items_removed |-> 0, cleaned_count |-> 0],
         locals |-> [path |-> "empty"]]
    ELSE IF too_few(prices) THEN
        \* sum / len: exact for one or two prices of whole cents
        [result |-> [low |-> SumSeq(prices) \div Len(prices),
                     average |-> SumSeq(prices) \div Len(prices),
                     high |-> SumSeq(prices) \div Len(prices),
                     items_removed |-> 0, cleaned_count |-> Len(prices)],
         locals |-> [path |-> "mean"]]
    ELSE
        clean_with_flags(prices, minp,
                         suspicious_flags(prices, titles, keywords_to_check(name)))

----------------------------------------------------------------------------
(* calculate_bid *)

\* The integer square root, by bisection: the r with r*r <= x < (r+1)*(r+1).
RECURSIVE ISqrtIn(_, _, _)
ISqrtIn(x, lo, hi) ==
    IF lo >= hi THEN lo
    ELSE LET mid == (lo + hi + 1) \div 2
         IN  IF mid * mid <= x THEN ISqrtIn(x, mid, hi) ELSE ISqrtIn(x, lo, mid - 1)

ISqrt(x) == ISqrtIn(x, 0, Min2(x, 40000))

\* excess * percentage, with percentage = 0.25 + 0.40 * sqrt(excess / 15000).
\* sqrt(excess / 15000) is held in hundredths: ISqrt(excess_ticks / 15000),
\* and the percentage in ten-thousandths.  Both divisions are exact when the
\* excess is 1.5 * r^2 dollars for a whole r, the values BidInputs draws.
\* The percentage without the square root: 0.25 + 0.40 * excess / 15000.
premium_linear(excess) ==
    LET ratio == excess \div 1500000
        percentage == 2500 + 40 * ratio
    IN  ((excess \div 1000) * percentage) \div 10

\* The percentage without its square-root term: a flat 0.25.
premium_flat(excess) == ((excess \div 1000) * 2500) \div 10

premium(excess) ==
    LET root == ISqrt(excess \div 15000)
        percentage == 2500 + 40 * root
    IN  ((excess \div 1000) * percentage) \div 10

\* The $300 base left out above the threshold.
calculate_bid_no_base(value) ==
    IF value <= 0 THEN 0
    ELSE IF value <= Dollars(3000) THEN Dollars(300)
    ELSE premium(value - Dollars(3000))

calculate_bid(value) ==
    IF value <= 0 THEN 0
    ELSE IF value <= Dollars(3000) THEN Dollars(300)
    ELSE Dollars(300) + premium(value - Dollars(3000))

----------------------------------------------------------------------------
(* calculate_recommended_bid *)

\* dict.get(key, default)
get(d, key, default) == IF key \in DOMAIN d THEN d[key] ELSE default

\* What one entry adds to totals[tier], by isinstance(part_prices, dict).  An
\* entry of the old format, a bare number, is held as the record
\* [value |-> number].
tier_amount(part_prices, tier) ==
    IF "value" \notin DOMAIN part_prices THEN get(part_prices, tier, 0)
    ELSE part_prices.value

\* The loop over parts_prices.values(), for one tier.
RECURSIVE sum_tier(_, _, _)
sum_tier(prices, keys, tier) ==
    IF keys = {} THEN 0
    ELSE LET k == CHOOSE x \in keys : TRUE
         IN  tier_amount(prices[k], tier) + sum_tier(prices, keys \ {k}, tier)

\* The totals with the low and the high tier taken for each other.
sum_totals_crossed(prices) ==
    [low     |-> sum_tier(prices, DOMAIN prices, "high"),
     average |-> sum_tier(prices, DOMAIN prices, "average"),
     high    |-> sum_tier(prices, DOMAIN prices, "low")]

sum_totals(prices) ==
    [low     |-> sum_tier(prices, DOMAIN prices, "low"),
     average |-> sum_tier(prices, DOMAIN prices, "average"),
     high    |-> sum_tier(prices, DOMAIN prices, "high")]

\* Every tier's bid taken from the average total.
calculate_recommended_bid_from_average(prices) ==
    LET t == sum_totals(prices)
    IN  [totals |-> t,
         bids   |-> [low     |-> calculate_bid(t.average),
                     average |-> calculate_bid(t.average),
                     high    |-> calculate_bid(t.average)]]

calculate_recommended_bid(prices) ==
    LET t == sum_totals(prices)
    IN  [totals |-> t,
         bids   |-> [low     |-> calculate_bid(t.low),
                     average |-> calculate_bid(t.average),
                     high    |-> calculate_bid(t.high)]]

----------------------------------------------------------------------------
(* _analyze_prices_with_ai *)

\* Line 1356: max_retries = 2.
max_retries == 2

T_low_price == <<"l","o","w","_","p","r","i","c","e">>
T_average_price == <<"a","v","e","r","a","g","e","_","p","r","i","c","e">>
T_high_price == <<"h","i","g","h","_","p","r","i","c","e">>
T_items_analyzed == <<"i","t","e","m","s","_","a","n","a","l","y","z","e","d">>
T_items_filtered_out ==
    <<"i","t","e","m","s","_","f","i","l","t","e","r","e","d","_","o","u","t">>
T_reasoning == <<"r","e","a","s","o","n","i","n","g">>
T_confidence_rating ==
    <<"c","o","n","f","i","d","e","n","c","e","_","r","a","t","i","n","g">>
T_confidence_explanation ==
    <<"c","o","n","f","i","d","e","n","c","e","_","e","x","p","l","a","n","a","t","i","o","n">>

\* Line 1388.
required_keys ==
    {T_low_price, T_average_price, T_high_price, T_items_analyzed,
     T_items_filtered_out, T_reasoning, T_confidence_rating, T_confidence_explanation}

T_dark_green == <<"d","a","r","k","_","g","r","e","e","n">>
T_yellow == <<"y","e","l","l","o","w">>

\* Line 1393.
valid_confidence_levels ==
    {T_dark_green, <<"l","i","g","h","t","_","g","r","e","e","n">>, T_yellow,
     <<"o","r","a","n","g","e">>, <<"r","e","d">>}

\* JSON values as json.loads returns them, tagged with their type: a number
\* (money in ticks, counts as they are), a string (its characters), null, an
\* array (its elements), an object (a function from its keys).
JNumber(v) == [type |-> "number", number |-> v]
JString(s) == [type |-> "string", string |-> s]
JNull == [type |-> "null"]
JObject(members) == [type |-> "object", members |-> members]
JsonTypes == {"number", "string", "null", "array", "object"}

\* The response text is a sequence of tokens: a JSON document, a code fence
\* (three backticks, with or without json right after them), or a word that
\* is no JSON.
FenceJson == [type |-> "fence", tag |-> "json"]
FenceBare == [type |-> "fence", tag |-> ""]
Word(w) == [type |-> "word", word |-> w]

\* A call's outcome: the value it returned, or the exception it raised.
Ok(v) == [ok |-> TRUE, value |-> v]
Raise(e) == [ok |-> FALSE, error |-> e]

\* str.startswith, for a fence: the text begins with three backticks, and
\* with the tag of the fence if it has one.
startswith(text, fence) ==
    /\ Len(text) > 0
    /\ text[1].type = "fence"
    /\ (fence.tag = "" \/ text[1].tag = fence.tag)

\* Line 1383: the one replace call takes the backticks only; the json of a
\* json fence stays in the text.
RECURSIVE remove_backticks(_)
remove_backticks(text) ==
    IF text = <<>> THEN <<>>
    ELSE LET t == Head(text)
             rest == remove_backticks(Tail(text))
         IN  IF t.type # "fence" THEN <<t>> \o rest
             ELSE IF t.tag = "" THEN rest
             ELSE <<Word(t.tag)>> \o rest

\* Lines 1379-1383.  The two replace calls of lines 1380-1381 take every
\* fence.
clean_response(text) ==
    IF startswith(text, FenceJson) THEN SelectSeq(text, LAMBDA t : t.type # "fence")
    ELSE IF startswith(text, FenceBare) THEN remove_backticks(text)
    ELSE text

\* Line 1385: json.loads accepts a text that is one JSON document.
json_loads(text) ==
    IF Len(text) = 1 /\ text[1].type \in JsonTypes THEN Ok(text[1])
    ELSE Raise("JSONDecodeError")

\* key in result, by the type of result.
key_in(key, doc) ==
    CASE doc.type = "object" -> Ok(key \in DOMAIN doc.members)
      [] doc.type = "array"  ->
            Ok(\E i \in 1..Len(doc.elements) : /\ doc.elements[i].type = "string"
                                               /\ doc.elements[i].string = key)
      [] doc.type = "string" -> Ok(Contains(doc.string, key))
      [] OTHER               -> Raise("TypeError")

\* Lines 1389-1390: all(key in result for key in required_keys), else
\* ValueError.  A number or null raises TypeError at the first key.
check_required_keys(doc) ==
    IF ~key_in(T_low_price, doc).ok THEN Raise("TypeError")
    ELSE IF \A key \in required_keys : key_in(key, doc).value THEN Ok(TRUE)
    ELSE Raise("ValueError")

\* Line 1394: result.get('confidence_rating', '').lower()
rating_lower(doc) ==
    IF doc.type # "object" THEN Raise("AttributeError")
    ELSE LET rating == IF T_confidence_rating \in DOMAIN doc.members
                       THEN doc.members[T_confidence_rating] ELSE JString(<<>>)
         IN  IF rating.type = "string" THEN Ok(lower(rating.string))
             ELSE Raise("AttributeError")

\* An unrecognised rating kept as the model gave it.
coerce_rating_kept(rating) == rating

\* Lines 1395-1397.
coerce_rating(rating) ==
    IF rating \notin valid_confidence_levels THEN T_yellow ELSE rating

Digits == <<"0","1","2","3","4","5","6","7","8","9">>
is_digits(s) ==
    Len(s) > 0 /\ \A i \in 1..Len(s) : \E d \in 1..Len(Digits) : s[i] = Digits[d]
RECURSIVE digits_value(_)
digits_value(s) ==
    IF s = <<>> THEN 0
    ELSE 10 * digits_value(SubSeq(s, 1, Len(s) - 1))
         + (CHOOSE d \in 1..Len(Digits) : Digits[d] = s[Len(s)]) - 1

\* float(value): a number is taken as it is, a string of digits is parsed
\* (as dollars); any other string raises ValueError, null or an array
\* TypeError.
float(v) ==
    CASE v.type = "number" -> Ok(v.number)
      [] v.type = "string" -> IF is_digits(v.string) THEN Ok(Dollars(digits_value(v.string)))
                              ELSE Raise("ValueError")
      [] OTHER             -> Raise("TypeError")

\* result['items_analyzed'] - result['items_filtered_out']
subtract(a, b) ==
    IF a.type = "number" /\ b.type = "number" THEN Ok(a.number - b.number)
    ELSE Raise("TypeError")

\* Lines 1406-1417: the dict built from a validated response.
build_result(members, rating) ==
    LET low == float(members[T_low_price])
        average == float(members[T_average_price])
        high == float(members[T_high_price])
        cleaned == subtract(members[T_items_analyzed], members[T_items_filtered_out])
    IN  IF ~low.ok THEN low
        ELSE IF ~average.ok THEN average
        ELSE IF ~high.ok THEN high
        ELSE IF ~cleaned.ok THEN cleaned
        ELSE Ok([low |-> low.value, average |-> average.value, high |-> high.value,
                 items_analyzed |-> members[T_items_analyzed].number,
                 items_filtered_out |-> members[T_items_filtered_out].number,
                 reasoning |-> members[T_reasoning],
                 confidence_rating |-> rating,
                 confidence_explanation |-> members[T_confidence_explanation],
                 cleaned_count |-> cleaned.value,
                 items_removed |-> members[T_items_filtered_out].number])

\* Lines 1387-1417, with the parsed document in hand.
validate_response(doc) ==
    LET keys == check_required_keys(doc)
        rating == rating_lower(doc)
    IN  IF ~keys.ok THEN keys
        ELSE IF ~rating.ok THEN rating
        ELSE build_result(doc.members, coerce_rating(rating.value))

\* Lines 1376-1417: response.text, which may itself raise, to the return.
read_response(resp) ==
    IF ~resp.has_text THEN Raise("ValueError")
    ELSE LET doc == json_loads(clean_response(resp.text))
         IN  IF ~doc.ok THEN doc ELSE validate_response(doc.value)

\* Lines 1338-1339 and 1430-1431.
total_prices(items) ==
    [i \in 1..Len(items) |-> get(items[i], "total_price", get(items[i], "price", 0))]
titles(items) == [i \in 1..Len(items) |-> get(items[i], "title", <<>>)]

\* Lines 1340 and 1432: the traditional analysis of the same listings.
traditional(items, name, minp) ==
    analyze_price_distribution(total_prices(items), titles(items), name, minp).result

\* Lines 1419-1432: what the call does with an exception raised inside its
\* try block.  The handler of JSONDecodeError reads response.text, and
\* response is bound only once a model call has returned; read unbound it
\* raises UnboundLocalError, which leaves the call.
handle_exception(error, response_bound, items, name, minp) ==
    IF error = "JSONDecodeError" /\ ~response_bound
    THEN [returned |-> FALSE, result |-> None, exception |-> "UnboundLocalError"]
    ELSE [returned |-> TRUE, result |-> traditional(items, name, minp),
          exception |-> None]

\* Line 1331: not self.gemini_model or not self.use_ai_analysis
ai_unavailable(model, flag) == model = None \/ ~flag

\* Line 1342 and 1343.
no_data == [low |-> 0, average |-> 0, high |-> 0, items_analyzed |-> 0,
            items_filtered_out |-> 0, reasoning |-> JString(<<"N","o"," ","d","a","t","a">>)]

\* Line 1810: price_analysis.get("confidence_rating", "yellow"), the rating
\* the callers of the analyzer read.
consumed_confidence(price_analysis) == get(price_analysis, "confidence_rating", T_yellow)

----------------------------------------------------------------------------
(* search_ebay_parts and _search_single_part_optimized *)

\* Line 1635: ThreadPoolExecutor(max_workers=3).
max_workers == 3

\* Lines 1755 and 1824: the result of a search that failed.
zero_prices == [low |-> 0, average |-> 0, high |-> 0]

\* Lines 1817-1820: the result of a search that found no priced listing.
zero_prices_no_items == [low |-> 0, average |-> 0, high |-> 0, raw_items |-> <<>>]

\* Lines 1802-1813: the result built from the analysis of the listings.
part_result(price_analysis, items) ==
    [low |-> price_analysis.low,
     average |-> price_analysis.average,
     high |-> price_analysis.high,
     reasoning |-> get(price_analysis, "reasoning", JString(<<>>)),
     items_analyzed |-> get(price_analysis, "items_analyzed", 0),
     items_filtered_out |-> get(price_analysis, "items_filtered_out", 0),
     cleaned_count |-> get(price_analysis, "cleaned_count", 0),
     confidence_rating |-> consumed_confidence(price_analysis),
     confidence_explanation |->
         get(price_analysis, "confidence_explanation",
             JString(<<"N","o"," ","c","o","n","f","i","d","e","n","c","e"," ",
                       "d","a","t","a">>)),
     raw_items |-> items]

\* Line 1799: what _analyze_prices_with_ai may do with the listings of a part:
\* return the statistical result, return the result of an accepted model
\* response (one of responses), or raise.
price_analyses(part, items, responses) ==
    {Ok(traditional(items, part.search_query, get(part, "min_price", 0)))}
    \cup {read_response(resp) : resp \in responses}
    \cup {Raise("UnboundLocalError")}

\* Lines 1705-1824: what one search may meet and the result it then returns:
\* a status other than 200, an exception, no priced listing, listings that
\* are analysed, listings whose analysis raises.
search_results(part, items, responses) ==
    {[outcome |-> "non200", result |-> zero_prices],
     [outcome |-> "exception", result |-> zero_prices],
     [outcome |-> "no_listings", result |-> zero_prices_no_items]}
    \cup {IF a.ok THEN [outcome |-> "analysed", result |-> part_result(a.value, items)]
          ELSE [outcome |-> "analysis_raised", result |-> zero_prices] :
          a \in price_analyses(part, items, responses)}

\* The rating read with no default: an entry without one has none.
read_confidence_undefaulted(prices) == get(prices, "confidence_rating", <<>>)

\* Lines 241, 518, 2109 and 2135: prices.get('confidence_rating', 'yellow'),
\* the rating the history status and the displays read from an entry of the
\* map of a scan.
read_confidence(prices) == get(prices, "confidence_rating", T_yellow)

\* parts_prices[part_name] = part_result
put(d, key, v) == [k \in DOMAIN d \cup {key} |-> IF k = key THEN v ELSE d[k]]

\* Lines 1696-1701: raw_items is popped from every entry that has it and kept
\* in self.raw_search_results.
without_raw_items(d) ==
    [k \in DOMAIN d |-> [f \in DOMAIN d[k] \ {"raw_items"} |-> d[k][f]]]
raw_items_of(d) ==
    [k \in {x \in DOMAIN d : "raw_items" \in DOMAIN d[x]} |-> d[k].raw_items]

----------------------------------------------------------------------------
(* The inputs the calls are made with *)

T_Engine == <<"E","n","g","i","n","e">>
T_EngineOilFilterCap ==
    <<"E","n","g","i","n","e"," ","O","i","l"," ","F","i","l","t","e","r"," ","C","a","p">>
T_radiator == <<"r","a","d","i","a","t","o","r">>

\* The listings a search may return, by ascending total price.
ListingPool ==
    << [price |-> Dollars(30),   title |-> T_Engine],
       [price |-> Dollars(52),   title |-> T_Engine],
       [price |-> Dollars(90),   title |-> T_EngineOilFilterCap],
       [price |-> Dollars(100),  title |-> T_Engine],
       [price |-> Dollars(1000), title |-> T_Engine] >>

\* The non-increasing sequences of len pool indexes, each at most top.
RECURSIVE Picks(_, _)
Picks(len, top) ==
    IF len = 0 THEN {<<>>}
    ELSE UNION {{<<k>> \o t : t \in Picks(len - 1, k)} : k \in 1..top}

\* Listing lists are enumerated up to permutation, dearest listing first (the
\* function sorts its prices itself).
ListingLists == UNION {Picks(len, Len(ListingPool)) : len \in 0..MaxListings}

PartNames == {T_Engine, T_radiator}
MinimumPrices == {0, Dollars(52)}

\* Ascending price lists for get_percentile.
PercentileValues == <<Dollars(10), 124000, Dollars(20), Dollars(30), Dollars(40)>>
RECURSIVE Ascending(_, _)
Ascending(len, low) ==
    IF len = 0 THEN {<<>>}
    ELSE UNION {{<<PercentileValues[k]>> \o t : t \in Ascending(len - 1, k)} :
                k \in low..Len(PercentileValues)}
PercentileData == UNION {Ascending(len, 1) : len \in 1..MaxData}

\* Every quarter dollar from 0 to MaxRoundDollars.
RoundPrices == {2500 * k : k \in 0..(4 * MaxRoundDollars)}
RoundCounts == {9, 10}

\* Parts values up to the $3000 threshold, and above it the values whose
\* excess is 1.5 * r^2 dollars.
BidInputs ==
    {0 - Dollars(100), 0 - 1, 0, 1, 100, Dollars(1), Dollars(1500),
     Dollars(3000) - 100, Dollars(3000)}
    \cup {Dollars(3000) + 15000 * r * r : r \in 1..MaxRoot}

\* The entries a part may have in parts_prices: a dict with the three tiers,
\* a dict with a tier missing, or a bare number (the old format).
Estimates(values) ==
    {[low |-> l, average |-> a, high |-> h] : l \in values, a \in values, h \in values}
    \cup {[low |-> l, average |-> a] : l \in values, a \in values}
    \cup {[value |-> v] : v \in values}

\* The values are chosen so that every total is at most $3000 or exceeds it
\* by 1.5 * r^2 dollars (r = 3, 4, 5), where calculate_bid is exact.
EngineEstimates == Estimates({0, Dollars(1500), Dollars(3000)})
TransmissionEstimates == Estimates({0, 15000 * 3 * 3})

\* Maps of one, two or three parts, and the empty map.
PartsMaps ==
    {<<>>}
    \cup {("engine" :> e) : e \in EngineEstimates}
    \cup {("engine" :> e) @@ ("transmission" :> t) :
              e \in EngineEstimates, t \in TransmissionEstimates}
    \cup {("engine" :> e) @@ ("transmission" :> t) @@ ("alternator" :> a) :
              e \in EngineEstimates, t \in TransmissionEstimates,
              a \in Estimates({0, 15000 * 4 * 4})}

\* The configurations the constructor leaves (lines 35-45): the model is
\* created only when the flag is on.
Configurations == {<<TRUE, "model">>, <<TRUE, None>>, <<FALSE, None>>}

\* Listing k of the pool as _search_single_part_optimized builds it, with $5
\* of its total price as shipping.
Item(k) ==
    [price |-> ListingPool[k].price - Dollars(5), shipping |-> Dollars(5),
     total_price |-> ListingPool[k].price, title |-> ListingPool[k].title]

ItemLists == UNION {Picks(len, Len(ListingPool)) : len \in 0..MaxItems}

\* The exceptions generate_content raises, by the handler of the outer try
\* that takes them: json.JSONDecodeError and its subclasses, or any other.
ModelErrors == {"APIError", "JSONDecodeError"}

T_purple == <<"p","u","r","p","l","e">>
T_abc == <<"a","b","c">>
T_40 == <<"4","0">>

\* The object the model is asked for, with its three prices and its rating.
Members(prices, rating) ==
    (T_low_price :> JNumber(prices[1])) @@ (T_average_price :> JNumber(prices[2]))
    @@ (T_high_price :> JNumber(prices[3])) @@ (T_items_analyzed :> JNumber(3))
    @@ (T_items_filtered_out :> JNumber(1)) @@ (T_reasoning :> JString(T_abc))
    @@ (T_confidence_rating :> rating) @@ (T_confidence_explanation :> JString(T_abc))

BaseMembers == Members(<<Dollars(40), Dollars(60), Dollars(80)>>, JString(T_dark_green))

\* Objects with every key, with one key missing, with a price or a count that
\* is a string or null.
ModelObjects ==
    {Members(prices, rating) :
         prices \in {<<Dollars(40), Dollars(60), Dollars(80)>>,
                     <<Dollars(100), Dollars(50), Dollars(70)>>},
         rating \in {JString(T_dark_green), JString(<<"R","E","D">>), JString(T_purple),
                     JString(<<>>), JNull, JNumber(3)}}
    \cup {[k \in required_keys \ {key} |-> BaseMembers[k]] : key \in required_keys}
    \cup {[BaseMembers EXCEPT ![T_low_price] = v] : v \in {JString(T_abc), JString(T_40), JNull}}
    \cup {[BaseMembers EXCEPT ![T_items_analyzed] = v] : v \in {JString(T_40), JNull}}

\* The responses: their text is a document alone (an object, an array, a
\* number, a string, null), inside a fence, inside a fence with JSON in
\* capitals, after a word, or no document at all; a response whose text
\* property raises has no text.
Responses ==
    {[has_text |-> TRUE, text |-> <<JObject(members)>>] : members \in ModelObjects}
    \cup {[has_text |-> TRUE, text |-> <<document>>] :
              document \in {[type |-> "array", elements |-> <<JNumber(Dollars(40))>>],
                            JNumber(Dollars(40)), JString(T_abc), JNull}}
    \cup {[has_text |-> TRUE, text |-> text] : text \in
         {<<FenceJson, JObject(BaseMembers), FenceBare>>,
          <<FenceBare, JObject(BaseMembers), FenceBare>>,
          <<FenceBare, Word("JSON"), JObject(BaseMembers), FenceBare>>,
          <<Word("Here"), FenceJson, JObject(BaseMembers), FenceBare>>,
          <<FenceJson, Word("Sorry"), FenceBare>>,
          <<Word("Sorry")>>,
          <<>>}}
    \cup {[has_text |-> FALSE, text |-> <<>>]}

\* The responses of the model a scan meets: the base object, and one with
\* prices out of order and an unrecognised rating.
AcceptedResponses ==
    {[has_text |-> TRUE, text |-> <<JObject(BaseMembers)>>],
     [has_text |-> TRUE,
      text |-> <<JObject(Members(<<Dollars(100), Dollars(50), Dollars(70)>>,
                                 JString(T_purple)))>>]}

\* self.parts_list, as read from the parts file: a search query and, for
\* some parts, a minimum price.
ConfiguredParts ==
    << [search_query |-> T_Engine, min_price |-> Dollars(52)],
       [search_query |-> T_radiator],
       [search_query |-> <<"a","l","t","e","r","n","a","t","o","r">>, min_price |-> 0],
       [search_query |-> <<"s","t","a","r","t","e","r">>] >>

\* The listings the search of each part finds, when it finds any.
PartListings ==
    << <<Item(4), Item(3), Item(2), Item(1)>>,
       <<Item(2), Item(2), Item(2)>>,
       <<Item(4)>>,
       <<Item(5), Item(4), Item(2)>> >>

\* What the search of each configured part may meet and return; parts_list
\* is a prefix of the configured parts.
PartSearchResults ==
    [k \in 1..Len(ConfiguredParts) |->
        search_results(ConfiguredParts[k], PartListings[k], AcceptedResponses)]

----------------------------------------------------------------------------
(* Initial states: one call, its arguments drawn *)

IdleAnalyze ==
    /\ raw_prices = None /\ raw_titles = None /\ part_name = None
    /\ minimum_price = None /\ locals = None /\ result = None
IdlePercentile == data = None /\ percentile = None /\ pct_value = None
IdleRound == price = None /\ n = None /\ rounded = None
IdleBid == parts_value = None /\ bid = None
IdleRecommend == parts_prices = None /\ totals = None /\ bids = None
IdleScan ==
    /\ ebay_access_token = None /\ parts_list = None /\ use_concurrent = None
    /\ loop_i = None /\ futures = None /\ part_searches = None /\ raw_search_results = None
    /\ results_text = None
IdleHistory ==
    /\ vin_history = None /\ index_file = None /\ entry_files = None /\ scans = None
    /\ removals = None
IdleAI ==
    /\ use_ai_analysis = None /\ gemini_model = None /\ raw_items = None
    /\ attempt = None /\ model_calls = None /\ response = None /\ exception = None

InitAnalyze ==
    /\ pc = "call"
    /\ \E picks \in ListingLists :
          /\ raw_prices = [i \in 1..Len(picks) |-> ListingPool[picks[i]].price]
          /\ raw_titles = [i \in 1..Len(picks) |-> ListingPool[picks[i]].title]
    /\ part_name \in PartNames
    /\ minimum_price \in MinimumPrices
    /\ locals = None /\ result = None
    /\ IdlePercentile /\ IdleRound /\ IdleBid /\ IdleRecommend /\ IdleAI /\ IdleScan /\ IdleHistory

InitPercentile ==
    /\ pc = "call"
    /\ data \in PercentileData
    /\ percentile \in 0..100
    /\ pct_value = None
    /\ IdleAnalyze /\ IdleRound /\ IdleBid /\ IdleRecommend /\ IdleAI /\ IdleScan /\ IdleHistory

InitRound ==
    /\ pc = "call"
    /\ price \in RoundPrices
    /\ n \in RoundCounts
    /\ rounded = None
    /\ IdleAnalyze /\ IdlePercentile /\ IdleBid /\ IdleRecommend /\ IdleAI /\ IdleScan /\ IdleHistory

InitBid ==
    /\ pc = "call"
    /\ parts_value \in BidInputs
    /\ bid = None
    /\ IdleAnalyze /\ IdlePercentile /\ IdleRound /\ IdleRecommend /\ IdleAI /\ IdleScan /\ IdleHistory

InitRecommend ==
    /\ pc = "call"
    /\ parts_prices \in PartsMaps
    /\ totals = None /\ bids = None
    /\ IdleAnalyze /\ IdlePercentile /\ IdleRound /\ IdleBid /\ IdleAI /\ IdleScan /\ IdleHistory

InitAI ==
    /\ pc = "call"
    /\ \E c \in Configurations : use_ai_analysis = c[1] /\ gemini_model = c[2]
    /\ \E picks \in ItemLists : raw_items = [i \in 1..Len(picks) |-> Item(picks[i])]
    /\ part_name \in PartNames
    /\ minimum_price \in MinimumPrices
    /\ attempt = None /\ model_calls = <<>> /\ response = None /\ exception = None
    /\ raw_prices = None /\ raw_titles = None /\ locals = None /\ result = None
    /\ IdlePercentile /\ IdleRound /\ IdleBid /\ IdleRecommend /\ IdleScan /\ IdleHistory

InitScan ==
    /\ pc = "call"
    /\ ebay_access_token \in {None, "token"}
    /\ parts_list \in {SubSeq(ConfiguredParts, 1, k) : k \in 0..MaxParts}
    /\ use_concurrent \in BOOLEAN
    /\ loop_i = 0    \* the sequential loop has not begun
    /\ futures = <<>> /\ part_searches = <<>>
    /\ raw_search_results = <<>>
    /\ results_text = <<>>    \* the lines of the log are followed under SpecLog
    /\ parts_prices = None /\ totals = None /\ bids = None
    /\ IdleAnalyze /\ IdlePercentile /\ IdleRound /\ IdleBid /\ IdleAI /\ IdleHistory

\* The pool at work on two or more parts whose searches all find listings
\* (lines 1635-1637): every search is submitted, none has begun, the log is
\* empty.
InitLog ==
    /\ pc = "concurrent"
    /\ ebay_access_token = "token"
    /\ parts_list \in {SubSeq(ConfiguredParts, 1, k) : k \in 2..MaxParts}
    /\ use_concurrent = TRUE
    /\ loop_i = 0
    /\ futures = [k \in 1..Len(parts_list) |-> "pending"]
    /\ part_searches = <<>>
    /\ raw_search_results = <<>>
    /\ results_text = <<>>
    /\ parts_prices = <<>> /\ totals = None /\ bids = None
    /\ IdleAnalyze /\ IdlePercentile /\ IdleRound /\ IdleBid /\ IdleAI /\ IdleHistory

----------------------------------------------------------------------------
\* The call on a short list of the listings of the pool and one more, priced
\* $62.50: close enough to the $52 one for every percentile of the two to
\* round to $55.
InitNear ==
    /\ pc = "call"
    /\ \E picks \in UNION {Picks(len, Len(ListingPool) + 1) : len \in 0..MaxNear} :
          /\ raw_prices = [k \in 1..Len(picks) |->
                              IF picks[k] > Len(ListingPool) THEN 625000
                              ELSE ListingPool[picks[k]].price]
          /\ raw_titles = [k \in 1..Len(picks) |->
                              IF picks[k] > Len(ListingPool) THEN T_Engine
                              ELSE ListingPool[picks[k]].title]
    /\ part_name \in PartNames
    /\ minimum_price \in MinimumPrices
    /\ locals = None /\ result = None
    /\ IdlePercentile /\ IdleRound /\ IdleBid /\ IdleRecommend /\ IdleAI /\ IdleScan /\ IdleHistory

(* Actions: the call runs to its return *)

Analyze ==
    /\ pc = "call"
    /\ \E r \in {analyze_price_distribution(raw_prices, raw_titles, part_name,
                                            minimum_price)} :
          /\ result' = r.result
          /\ locals' = r.locals
    /\ pc' = "done"
    /\ UNCHANGED <<raw_prices, raw_titles, part_name, minimum_price>>
    /\ UNCHANGED <<percentileVars, roundVars, bidVars, recommendVars, aiVars, scanVars, historyVars>>

GetPercentile ==
    /\ pc = "call"
    /\ pct_value' = get_percentile(data, percentile)
    /\ pc' = "done"
    /\ UNCHANGED <<data, percentile, analyzeVars, roundVars, bidVars, recommendVars, aiVars, scanVars, historyVars>>

RoundTier ==
    /\ pc = "call"
    /\ rounded' = round_tier(price, n)
    /\ pc' = "done"
    /\ UNCHANGED <<price, n, analyzeVars, percentileVars, bidVars, recommendVars, aiVars, scanVars, historyVars>>

CalculateBid ==
    /\ pc = "call"
    /\ bid' = calculate_bid(parts_value)
    /\ pc' = "done"
    /\ UNCHANGED <<parts_value, analyzeVars, percentileVars, roundVars, recommendVars, aiVars, scanVars, historyVars>>

CalculateRecommendedBid ==
    /\ pc = "call"
    /\ \E r \in {calculate_recommended_bid(parts_prices)} :
          /\ totals' = r.totals
          /\ bids' = r.bids
    /\ pc' = "done"
    /\ UNCHANGED <<parts_prices, analyzeVars, percentileVars, roundVars, bidVars, aiVars,
                   scanVars, historyVars>>

\* Lines 1331-1355: the call up to the first generate_content.
StartAnalysis ==
    /\ pc = "call"
    /\ IF ai_unavailable(gemini_model, use_ai_analysis)
       THEN /\ result' = traditional(raw_items, part_name, minimum_price)
            /\ pc' = "done"
            /\ UNCHANGED attempt
       ELSE IF raw_items = <<>>
       THEN /\ result' = no_data
            /\ pc' = "done"
            /\ UNCHANGED attempt
       ELSE /\ pc' = "model"
            /\ attempt' = 0
            /\ UNCHANGED result
    /\ UNCHANGED <<use_ai_analysis, gemini_model, raw_items, model_calls, response,
                   exception>>
    /\ UNCHANGED <<raw_prices, raw_titles, part_name, minimum_price, locals>>
    /\ UNCHANGED <<percentileVars, roundVars, bidVars, recommendVars, scanVars, historyVars>>

\* Lines 1358-1374: generate_content raises.  The last attempt re-raises into
\* the handlers of the outer try; an earlier one sleeps and goes round.
ModelRaises ==
    /\ pc = "model"
    /\ \E error \in ModelErrors :
          /\ model_calls' = Append(model_calls, error)
          /\ IF attempt = max_retries - 1
             THEN \E h \in {handle_exception(error, FALSE, raw_items, part_name,
                                             minimum_price)} :
                      /\ pc' = IF h.returned THEN "done" ELSE "raised"
                      /\ result' = h.result
                      /\ exception' = h.exception
                      /\ UNCHANGED attempt
             ELSE /\ pc' = "model"
                  /\ attempt' = attempt + 1
                  /\ UNCHANGED <<result, exception>>
    /\ UNCHANGED <<use_ai_analysis, gemini_model, raw_items, response>>
    /\ UNCHANGED <<raw_prices, raw_titles, part_name, minimum_price, locals>>
    /\ UNCHANGED <<percentileVars, roundVars, bidVars, recommendVars, scanVars, historyVars>>

\* Lines 1358-1432: generate_content returns; the loop breaks and the call
\* runs to its end.
ModelResponds ==
    /\ pc = "model"
    /\ \E resp \in Responses :
          /\ model_calls' = Append(model_calls, "response")
          /\ response' = resp
          /\ \E r \in {read_response(resp)} :
                IF r.ok
                THEN /\ result' = r.value
                     /\ pc' = "done"
                     /\ UNCHANGED exception
                ELSE \E h \in {handle_exception(r.error, TRUE, raw_items, part_name,
                                                minimum_price)} :
                         /\ pc' = IF h.returned THEN "done" ELSE "raised"
                         /\ result' = h.result
                         /\ exception' = h.exception
    /\ UNCHANGED <<use_ai_analysis, gemini_model, raw_items, attempt>>
    /\ UNCHANGED <<raw_prices, raw_titles, part_name, minimum_price, locals>>
    /\ UNCHANGED <<percentileVars, roundVars, bidVars, recommendVars, scanVars, historyVars>>

\* What the scan leaves untouched.
ScanFrame ==
    /\ UNCHANGED <<parts_list, totals, bids, results_text, historyVars>>
    /\ UNCHANGED <<analyzeVars, percentileVars, roundVars, bidVars, aiVars>>

\* Lines 1591-1637, 1663-1670 and 1692-1703: the call up to the first search.  Without
\* a token one is requested; if none is had the search is aborted with an
\* empty dict.  In concurrent mode every part is submitted, and an exception
\* there (no thread can be started) switches to the sequential loop.  With no
\* parts the call runs to its return.
StartScan ==
    /\ pc = "call"
    /\ \E token_ok \in BOOLEAN, pool_ok \in BOOLEAN :
          IF ebay_access_token = None /\ ~token_ok
          THEN /\ parts_prices' = <<>>
               /\ pc' = "done"
               /\ UNCHANGED <<ebay_access_token, use_concurrent, loop_i, futures>>
          ELSE /\ ebay_access_token' = "token"
               /\ parts_prices' = <<>>
               /\ IF parts_list = <<>>
                  THEN /\ pc' = "done"
                       /\ use_concurrent' = (use_concurrent /\ pool_ok)
                       /\ UNCHANGED <<loop_i, futures>>
                  ELSE IF use_concurrent /\ pool_ok
                  THEN /\ pc' = "concurrent"
                       /\ futures' = [k \in 1..Len(parts_list) |-> "pending"]
                       /\ UNCHANGED <<use_concurrent, loop_i>>
                  ELSE /\ pc' = "sequential"
                       /\ use_concurrent' = FALSE
                       /\ loop_i' = 1
                       /\ UNCHANGED futures
    /\ UNCHANGED <<part_searches, raw_search_results>>
    /\ ScanFrame

\* Lines 1672-1703: one round of the sequential loop, and after the last one
\* the rest of the call.
SequentialSearch ==
    /\ pc = "sequential"
    /\ \E r \in PartSearchResults[loop_i] :
          /\ part_searches' = (loop_i :> r) @@ part_searches
          /\ \E found \in {put(parts_prices, parts_list[loop_i].search_query, r.result)} :
                IF loop_i = Len(parts_list)
                THEN /\ parts_prices' = without_raw_items(found)
                     /\ raw_search_results' = raw_items_of(found) @@ raw_search_results
                     /\ pc' = "done"
                ELSE /\ parts_prices' = found
                     /\ pc' = "sequential"
                     /\ UNCHANGED raw_search_results
    /\ loop_i' = loop_i + 1
    /\ UNCHANGED <<ebay_access_token, use_concurrent, futures>>
    /\ ScanFrame

\* Line 1635: a worker of the pool, of which there are max_workers, takes the
\* first job of the queue.
WorkerStart ==
    /\ pc = "concurrent"
    /\ Cardinality({k \in DOMAIN futures : futures[k] \in {"running", "analysing", "hung"}})
           < max_workers
    /\ \E k \in DOMAIN futures :
          /\ futures[k] = "pending"
          /\ \A j \in 1..(k - 1) : futures[j] # "pending"
          /\ futures' = [futures EXCEPT ![k] = "running"]
    /\ UNCHANGED <<pc, parts_prices, ebay_access_token, use_concurrent, loop_i, part_searches,
                   raw_search_results>>
    /\ ScanFrame

\* What the scan and the log leave untouched.
LogFrame ==
    /\ UNCHANGED <<pc, parts_prices, totals, bids, ebay_access_token, parts_list,
                   use_concurrent, loop_i, part_searches, raw_search_results>>
    /\ UNCHANGED <<analyzeVars, percentileVars, roundVars, bidVars, aiVars, historyVars>>

\* Lines 1799 and 1352-1353: the search of a worker has found its listings and
\* its analysis inserts "Analyzing <part> with AI" at the end of the log.
WriteAnalyzing ==
    /\ pc = "concurrent"
    /\ \E k \in DOMAIN futures :
          /\ futures[k] = "running"
          /\ PartListings[k] # <<>>
          /\ futures' = [futures EXCEPT ![k] = "analysing"]
          /\ results_text' = Append(results_text, [part |-> k, line |-> "Analyzing"])
    /\ LogFrame

\* Lines 1400-1404: the analysis of a worker inserts its result lines, which
\* do not name the part, at the end of the log and returns.
WriteResult ==
    /\ pc = "concurrent"
    /\ \E k \in DOMAIN futures :
          /\ futures[k] = "analysing"
          /\ futures' = [futures EXCEPT ![k] = "finished"]
          /\ results_text' = Append(results_text, [part |-> k, line |-> "AI Analysis"])
    /\ LogFrame

\* Lines 1618-1626: search_single_part_safe returns in its worker.
WorkerFinish ==
    /\ pc = "concurrent"
    /\ \E k \in DOMAIN futures :
          /\ futures[k] = "running"
          /\ \E r \in PartSearchResults[k] :
                part_searches' = (k :> r) @@ part_searches
          /\ futures' = [futures EXCEPT ![k] = "finished"]
    /\ UNCHANGED <<pc, parts_prices, ebay_access_token, use_concurrent, loop_i,
                   raw_search_results>>
    /\ ScanFrame

\* Lines 1358-1365, in a worker: generate_content, called with no timeout,
\* never returns, and neither does search_single_part_safe; the worker stays
\* taken.
WorkerHangs ==
    /\ pc = "concurrent"
    /\ \E k \in DOMAIN futures :
          /\ futures[k] = "running"
          /\ futures' = [futures EXCEPT ![k] = "hung"]
    /\ UNCHANGED <<pc, parts_prices, ebay_access_token, use_concurrent, loop_i, part_searches,
                   raw_search_results>>
    /\ ScanFrame

\* Lines 1641-1654: as_completed hands the main thread a finished future and
\* its result is stored; after the last one (lines 1692-1703) the rest of the
\* call.  as_completed is called with no timeout and hands over finished
\* futures only: future.result(timeout=45) of a finished future neither waits
\* nor raises TimeoutError, and search_single_part_safe raises nothing, so the
\* handlers of lines 1655-1662 are never entered.
CollectResult ==
    /\ pc = "concurrent"
    /\ \E k \in DOMAIN futures :
          /\ futures[k] = "finished"
          /\ futures' = [futures EXCEPT ![k] = "collected"]
          /\ \E found \in {put(parts_prices, parts_list[k].search_query,
                                 part_searches[k].result)} :
                IF \A j \in DOMAIN futures \ {k} : futures[j] = "collected"
                THEN /\ parts_prices' = without_raw_items(found)
                     /\ raw_search_results' = raw_items_of(found) @@ raw_search_results
                     /\ pc' = "done"
                ELSE /\ parts_prices' = found
                     /\ pc' = "concurrent"
                     /\ UNCHANGED raw_search_results
    /\ UNCHANGED <<ebay_access_token, use_concurrent, loop_i, part_searches>>
    /\ ScanFrame

----------------------------------------------------------------------------
(* The scan history *)

\* Lines 274-275, 688-689 and 715: the most entries the history keeps.
max_history == 50

\* k entries by their timestamps 1..k, the newest first.
Descending(k) == [a \in 1..k |-> k + 1 - a]

\* The entries index.json or the directory may hold when the program starts.
DiskContents ==
    {Descending(k) : k \in {0, 2, max_history - 1}
                             \union (max_history..(max_history + MaxExcess))}

\* Line 232: the timestamp of the entry of the next scan.
NewEntry == max_history + MaxExcess + scans + 1

\* Line 141, before the load of line 147.
InitHistory ==
    /\ pc = "construct"
    /\ vin_history = <<>>
    /\ \E exists \in BOOLEAN, entries \in DiskContents :
          /\ exists \/ entries = <<>>
          /\ index_file = [exists |-> exists, entries |-> entries]
    /\ entry_files \in DiskContents
    /\ scans = 0 /\ removals = 0
    /\ parts_prices = None /\ totals = None /\ bids = None
    /\ IdleAnalyze /\ IdlePercentile /\ IdleRound /\ IdleBid /\ IdleAI /\ IdleScan

HistoryFrame ==
    UNCHANGED <<analyzeVars, percentileVars, roundVars, bidVars, recommendVars, aiVars,
                scanVars>>

\* s[:k]
first(s, k) == SubSeq(s, 1, Min2(k, Len(s)))

\* Lines 709-731: the files of the directory, newest first, at most 50 of
\* them, without those that do not load.
scan_existing_files(files, unreadable) ==
    LET recent == first(files, max_history)
    IN  SelectSeq(recent, LAMBDA e : e \notin unreadable)

\* Lines 661-701, with scan_existing_files when there is no index; an
\* exception leaves the history empty.
load_vin_history_from_files ==
    /\ pc = "construct"
    /\ pc' = "mainloop"
    /\ \E raised \in BOOLEAN :
          IF raised
          THEN /\ vin_history' = <<>>
               /\ UNCHANGED index_file
          ELSE IF index_file.exists
          THEN /\ vin_history' = first(index_file.entries, max_history)
               /\ index_file' = IF Len(index_file.entries) > max_history
                                 THEN [exists |-> TRUE, entries |-> vin_history']
                                 ELSE index_file
          ELSE \E unreadable \in {{}, {Len(entry_files)}} :
                  /\ vin_history' = scan_existing_files(entry_files, unreadable)
                  /\ index_file' = IF vin_history' # <<>>
                                    THEN [exists |-> TRUE, entries |-> vin_history']
                                    ELSE index_file
    /\ UNCHANGED <<entry_files, scans, removals>>
    /\ HistoryFrame

\* add_to_vin_history without the trimming of lines 274-275.
add_to_vin_history_untrimmed ==
    /\ pc = "mainloop"
    /\ scans < MaxScans
    /\ vin_history' = <<NewEntry>> \o vin_history
    /\ entry_files' = <<NewEntry>> \o entry_files
    /\ index_file' = [exists |-> TRUE, entries |-> vin_history']
    /\ scans' = scans + 1
    /\ UNCHANGED <<pc, removals>>
    /\ HistoryFrame

\* Lines 226-281, with save_vin_analysis_to_file and save_history_index.
add_to_vin_history ==
    /\ pc = "mainloop"
    /\ scans < MaxScans
    /\ LET inserted == <<NewEntry>> \o vin_history
       IN  vin_history' = IF Len(inserted) > max_history
                          THEN first(inserted, max_history)
                          ELSE inserted
    /\ entry_files' = <<NewEntry>> \o entry_files
    /\ index_file' = [exists |-> TRUE, entries |-> vin_history']
    /\ scans' = scans + 1
    /\ UNCHANGED <<pc, removals>>
    /\ HistoryFrame

\* The selections of the table followed: the first row, the last, both: the
\* tags of the rows (line 309), in the reverse order of line 337.
Selections(len) ==
    {<<0>>, <<len - 1>>} \union (IF len > 1 THEN {<<len - 1, 0>>} ELSE {})

\* Lines 339-352: del self.vin_history[index] for each index.
RECURSIVE remove_indices(_, _)
remove_indices(history, indices_to_remove) ==
    IF indices_to_remove = <<>> THEN history
    ELSE LET index == Head(indices_to_remove)
         IN  remove_indices(
                 IF 0 <= index /\ index < Len(history)
                 THEN SubSeq(history, 1, index) \o SubSeq(history, index + 2, Len(history))
                 ELSE history,
                 Tail(indices_to_remove))

\* Lines 311-356, the removal confirmed.
remove_selected_history ==
    /\ pc = "mainloop"
    /\ vin_history # <<>>
    /\ removals < MaxRemovals
    /\ removals' = removals + 1
    /\ \E indices_to_remove \in Selections(Len(vin_history)) :
          /\ vin_history' = remove_indices(vin_history, indices_to_remove)
          /\ entry_files' =
                 SelectSeq(entry_files,
                           LAMBDA e : \A k \in 1..Len(indices_to_remove) :
                                         e # vin_history[indices_to_remove[k] + 1])
    /\ index_file' = [exists |-> TRUE, entries |-> vin_history']
    /\ UNCHANGED <<pc, scans>>
    /\ HistoryFrame

\* Lines 358-363, the clearing confirmed.
clear_vin_history ==
    /\ pc = "mainloop"
    /\ vin_history' = <<>>
    /\ index_file' = [exists |-> TRUE, entries |-> <<>>]
    /\ UNCHANGED <<pc, entry_files, scans, removals>>
    /\ HistoryFrame

\* The window is closed and the program started again: line 141.
Reopen ==
    /\ pc = "mainloop"
    /\ pc' = "construct"
    /\ vin_history' = <<>>
    /\ UNCHANGED <<index_file, entry_files, scans, removals>>
    /\ HistoryFrame

SpecAnalyze == InitAnalyze /\ [][Analyze]_vars
SpecNear == InitNear /\ [][Analyze]_vars
SpecPercentile == InitPercentile /\ [][GetPercentile]_vars
SpecRound == InitRound /\ [][RoundTier]_vars
SpecBid == InitBid /\ [][CalculateBid]_vars
SpecRecommend == InitRecommend /\ [][CalculateRecommendedBid]_vars
SpecAI == InitAI /\ [][StartAnalysis \/ ModelRaises \/ ModelResponds]_vars
SpecScan ==
    InitScan /\ [][StartScan \/ SequentialSearch \/ WorkerStart \/ WorkerFinish
                   \/ WorkerHangs \/ CollectResult]_vars

SpecHistory ==
    InitHistory /\ [][load_vin_history_from_files \/ add_to_vin_history
                      \/ remove_selected_history \/ clear_vin_history \/ Reopen]_vars
SpecLog == InitLog /\ [][WorkerStart \/ WriteAnalyzing \/ WriteResult]_vars

\* The main thread and the workers of the pool are scheduled, and a search
\* that does not hang returns: its HTTP request has a timeout (line 1752).
SpecScanFair ==
    /\ SpecScan
    /\ WF_<<pc, futures, part_searches>>(StartScan)
    /\ WF_<<pc, futures, part_searches>>(SequentialSearch)
    /\ WF_<<pc, futures, part_searches>>(WorkerStart)
    /\ WF_<<pc, futures, part_searches>>(WorkerFinish)
    /\ WF_<<pc, futures, part_searches>>(CollectResult)

----------------------------------------------------------------------------
(* Properties of _analyze_price_distribution, under SpecAnalyze *)

Returned == pc = "done"

\* The calls that pass the two shortcuts and run the cleaning stages.
Cleaned == Returned /\ Len(raw_prices) >= 3

Count(s, x) == Cardinality({i \in 1..Len(s) : s[i] = x})

\* C1: for 3 or more listings whose cleaned price list is not empty, the
\* returned tiers satisfy low <= average <= high, after rounding and tie-break.
C1_TierOrdering ==
    (Cleaned /\ result.cleaned_count > 0)
        => (result.low <= result.average /\ result.average <= result.high)

\* C2: 1 or 2 listings return the exact mean of the prices as all three tiers,
\* nothing removed, whatever their titles and the minimum price; no listings
\* return all zeros.
C2_FewListingsMean ==
    (Returned /\ Len(raw_prices) < 3) =>
        IF Len(raw_prices) = 0
        THEN result = [low |-> 0, average |-> 0, high |-> 0,
                       items_removed |-> 0, cleaned_count |-> 0]
        ELSE /\ result.low * Len(raw_prices) = SumSeq(raw_prices)
             /\ result.average = result.low
             /\ result.high = result.low
             /\ result.items_removed = 0
             /\ result.cleaned_count = Len(raw_prices)
             /\ DOMAIN result = {"low", "average", "high", "items_removed", "cleaned_count"}

\* Two listings, one with a keyword title and one below the minimum price,
\* are averaged as they are: (90 + 30) / 2 = 60.
C2_Witness ==
    /\ Returned
    /\ raw_prices = <<Dollars(90), Dollars(30)>>
    /\ raw_titles = <<T_EngineOilFilterCap, T_Engine>>
    /\ part_name = T_Engine
    /\ minimum_price = Dollars(52)
    /\ result.low = Dollars(60)
    /\ result.items_removed = 0

\* C6: with 3 or more listings, the keyword stage removes exactly the listings
\* whose title contains a keyword of the part (here: part "Engine", title
\* "Engine Oil Filter Cap", keyword "oil filter"), whatever the price and the
\* minimum price; their price reaches no later stage and no tier; a part
\* without a keyword list ("radiator") loses nothing at this stage.
C6_KeywordRejection ==
    Cleaned =>
        IF part_name = T_Engine
        THEN LET keep == SelectSeq([i \in 1..Len(raw_prices) |-> i],
                                   LAMBDA i : raw_titles[i] # T_EngineOilFilterCap)
                 clean_prices == [k \in 1..Len(keep) |-> raw_prices[keep[k]]]
                 clean_titles == [k \in 1..Len(keep) |-> raw_titles[keep[k]]]
                 alone == analyze_price_distribution(clean_prices, clean_titles,
                                                     T_radiator, minimum_price).result
             IN  /\ locals.after_keyword = clean_prices
                 /\ Count(locals.after_floor, Dollars(90)) = 0
                 /\ Count(locals.cleaned_prices, Dollars(90)) = 0
                 /\ result.cleaned_count <= Len(keep)
                 /\ Len(keep) >= 3 =>
                        /\ result.low = alone.low
                        /\ result.average = alone.average
                        /\ result.high = alone.high
        ELSE locals.after_keyword = raw_prices

\* "Engine Oil Filter Cap" at $90, above the minimum price of $52, is removed
\* from an engine search and the tiers come from the other listings.
C6_Witness ==
    /\ Cleaned
    /\ part_name = T_Engine
    /\ minimum_price = Dollars(52)
    /\ raw_prices = <<Dollars(100), Dollars(100), Dollars(90), Dollars(52)>>
    /\ raw_titles[3] = T_EngineOilFilterCap
    /\ locals.after_keyword = <<Dollars(100), Dollars(100), Dollars(52)>>
    /\ result.items_removed = 1

\* The value at 0-based position k of the ascending order of s, by rank.
AtPosition(s, k) ==
    CHOOSE v \in {s[i] : i \in 1..Len(s)} :
        /\ Cardinality({i \in 1..Len(s) : s[i] < v}) <= k
        /\ Cardinality({i \in 1..Len(s) : s[i] <= v}) > k

\* C7: the IQR stage acts iff at least 10 prices are left by the keyword and
\* floor stages; then Q1 and Q3 are the prices at positions n//4 and 3n//4 of
\* the sorted list and exactly the prices strictly outside
\* [Q1 - 1.5*IQR, Q3 + 1.5*IQR] are removed; with fewer than 10 none is.
C7_IqrRejection ==
    Cleaned =>
        LET before == locals.after_floor
            after == locals.cleaned_prices
        IN  IF Len(before) < 10 THEN after = before
            ELSE LET q1 == AtPosition(before, Len(before) \div 4)
                     q3 == AtPosition(before, (3 * Len(before)) \div 4)
                 IN  after = SelectSeq(before,
                                 LAMBDA p : /\ 2 * p >= 2 * q1 - 3 * (q3 - q1)
                                            /\ 2 * p <= 2 * q3 + 3 * (q3 - q1))

\* Eleven listings, one removed by keyword: of the ten left the $1000 one is
\* an outlier and the $30 one, inside the bounds, is kept.
C7_Witness ==
    /\ Cleaned
    /\ Len(raw_prices) = 11
    /\ Len(locals.after_floor) = 10
    /\ Count(locals.after_floor, Dollars(1000)) = 1
    /\ Count(locals.cleaned_prices, Dollars(1000)) = 0
    /\ Count(locals.cleaned_prices, Dollars(30)) = 1
    /\ Len(locals.cleaned_prices) = 9

AllTiersEqual == result.low = result.average /\ result.average = result.high

\* The calls that reach the percentiles with 3 or more cleaned prices.
ThreeCleaned == Cleaned /\ result.cleaned_count >= 3

\* C17 as stated: whenever 3 or more cleaned prices exist the result does not
\* have low = average = high.
C17_SeparationAsStated == ThreeCleaned => ~AllTiersEqual

\* C17: whenever 3 or more cleaned prices exist and their range
\* (highest - lowest) exceeds $10, the result does not have
\* low = average = high: tiers that rounding left equal are separated by the
\* tie-break, which raises the high tier above the average.
C17_Separation ==
    (ThreeCleaned /\ result.final_range > Dollars(10)) =>
        /\ ~AllTiersEqual
        /\ (locals.rounded[1] = locals.rounded[2] /\ locals.rounded[2] = locals.rounded[3])
               => result.high > result.average

\* Three listings at $30 and one at $100: the rounded tiers are all 30 and
\* the tie-break returns 30 / 30 / 40.
C17_Witness ==
    /\ ThreeCleaned
    /\ result.final_range > Dollars(10)
    /\ locals.rounded = <<Dollars(30), Dollars(30), Dollars(30)>>
    /\ result.low = Dollars(30)
    /\ result.average = Dollars(30)
    /\ result.high = Dollars(40)

\* Every listing has a keyword title of the part or a price below the
\* minimum price.
AllRejected ==
    \A i \in 1..Len(raw_prices) :
        \/ part_name = T_Engine /\ raw_titles[i] = T_EngineOilFilterCap
        \/ raw_prices[i] < minimum_price

\* C18: when 3 or more listings are supplied and the stages remove every one
\* of them, the call returns low = average = high = 0, items_removed = the
\* number of listings supplied and cleaned_count = 0, and takes no percentile,
\* minimum or maximum; the cleaned list is empty exactly when every listing
\* fails the keyword or the floor stage (the IQR stage never empties a list).
C18_TotalExclusion ==
    Cleaned =>
        /\ (locals.cleaned_prices = <<>>) <=> AllRejected
        /\ AllRejected =>
              /\ result = [low |-> 0, average |-> 0, high |-> 0,
                           items_removed |-> Len(raw_prices), cleaned_count |-> 0]
              /\ locals.path = "excluded"

\* An engine search with a $52 minimum: "Engine Oil Filter Cap" at $90 goes at
\* the keyword stage and the two $30 listings at the floor stage.
C18_Witness ==
    /\ Cleaned
    /\ part_name = T_Engine
    /\ minimum_price = Dollars(52)
    /\ raw_prices = <<Dollars(90), Dollars(30), Dollars(30)>>
    /\ locals.after_keyword = <<Dollars(30), Dollars(30)>>
    /\ locals.after_floor = <<>>
    /\ result.items_removed = 3
    /\ result.cleaned_count = 0
    /\ result.high = 0

OnPercentilePath == Returned /\ locals.path = "percentile"

RoundedEqual ==
    locals.rounded[1] = locals.rounded[2] /\ locals.rounded[2] = locals.rounded[3]

CleanedRange == MaxOf(locals.cleaned_prices) - MinOf(locals.cleaned_prices)

\* C24: when the three rounded tiers are equal and the range of the cleaned
\* prices exceeds $10, low becomes max(low - step, lowest cleaned price), high
\* becomes high + step and average stays, with step $5 for a range below $50,
\* $10 below $200 and $25 otherwise; when the rounded tiers are not all equal,
\* or the range is $10 or less, the three tiers are returned as rounded.
\* Checked under SpecNear.
C24_TieBreakStep ==
    OnPercentilePath =>
        LET step == IF CleanedRange < Dollars(50) THEN Dollars(5)
                    ELSE IF CleanedRange < Dollars(200) THEN Dollars(10)
                    ELSE Dollars(25)
        IN  IF RoundedEqual /\ CleanedRange > Dollars(10)
            THEN /\ result.low = Max2(locals.rounded[1] - step,
                                      MinOf(locals.cleaned_prices))
                 /\ result.average = locals.rounded[2]
                 /\ result.high = locals.rounded[3] + step
            ELSE /\ result.low = locals.rounded[1]
                 /\ result.average = locals.rounded[2]
                 /\ result.high = locals.rounded[3]

\* C25: the percentiles are chosen by the number n of cleaned prices, not by
\* the number of listings supplied: for n >= 10 the tiers before the tie-break
\* are smart_round of the 10th / 30th / 50th percentile of the cleaned prices,
\* for 1 <= n < 10 small_round of the 5th / 25th / 50th; raw_p10 / raw_p30 /
\* raw_p50 of the result are the unrounded percentiles the tiers came from.
C25_PercentileSelection ==
    (Cleaned /\ result.cleaned_count >= 1) =>
        LET prices == sorted(locals.cleaned_prices)
            large == Len(prices) >= 10
            p_low == get_percentile(prices, IF large THEN 10 ELSE 5)
            p_average == get_percentile(prices, IF large THEN 30 ELSE 25)
            p_high == get_percentile(prices, 50)
        IN  /\ locals.path = "percentile"
            /\ locals.n = result.cleaned_count
            /\ result.raw_p10 = p_low /\ result.raw_p30 = p_average
            /\ result.raw_p50 = p_high
            /\ locals.rounded =
                   IF large
                   THEN <<smart_round(p_low), smart_round(p_average), smart_round(p_high)>>
                   ELSE <<small_round(p_low), small_round(p_average), small_round(p_high)>>

\* Eleven listings of which nine are left: the 5th percentile 38.80 of the
\* nine is reported and rounded to the dollar, where the 10th would be 47.60.
C25_Witness ==
    /\ Cleaned
    /\ Len(raw_prices) = 11
    /\ result.cleaned_count = 9
    /\ result.raw_p10 = 388000
    /\ locals.rounded[1] = Dollars(39)
    /\ get_percentile(sorted(locals.cleaned_prices), 10) = 476000

\* C26: when 3 or more listings are supplied and the stages leave 1 or 2
\* prices, all three tiers equal the arithmetic mean of the prices left; when
\* exactly 3 are left the percentile path is taken.
C26_DegenerateBoundary ==
    Cleaned =>
        /\ Len(locals.cleaned_prices) \in {1, 2} =>
               /\ result.low * Len(locals.cleaned_prices) = SumSeq(locals.cleaned_prices)
               /\ result.average = result.low
               /\ result.high = result.low
        /\ Len(locals.cleaned_prices) = 3 => locals.path = "percentile"

\* C27: with 3 or more listings and a minimum price above 0, exactly the
\* listings the keyword stage left whose price is below the minimum are
\* removed, before the IQR stage; a price equal to the minimum is kept; no
\* price below the minimum reaches the quartiles, the percentiles or the range;
\* with a minimum price of 0 the stage removes nothing.
C27_FloorRejection ==
    Cleaned =>
        /\ locals.after_floor =
               SelectSeq(locals.after_keyword, LAMBDA p : ~(p < minimum_price))
        /\ minimum_price = 0 => locals.after_floor = locals.after_keyword
        /\ \A k \in 1..Len(locals.cleaned_prices) :
               /\ locals.cleaned_prices[k] >= minimum_price
               /\ Count(locals.after_floor, locals.cleaned_prices[k]) > 0
        /\ locals.path = "percentile" =>
               /\ result.raw_p10 >= minimum_price
               /\ MinOf(locals.cleaned_prices) >= minimum_price

\* A $52 minimum: the two $30 listings go, the $52 one stays and is the
\* lowest price the percentiles see.
C27_Witness ==
    /\ Cleaned
    /\ minimum_price = Dollars(52)
    /\ locals.after_keyword = <<Dollars(100), Dollars(52), Dollars(30), Dollars(30)>>
    /\ locals.after_floor = <<Dollars(100), Dollars(52)>>
    /\ result.items_removed = 2
    /\ result.raw_p10 >= Dollars(52)

----------------------------------------------------------------------------
(* Properties of get_percentile, under SpecPercentile *)

\* C3: get_percentile is the linear-interpolation percentile: a single price
\* is returned as it is; otherwise, with idx = p/100 * (n-1), the result lies
\* between the prices at floor(idx) and ceil(idx), at the fraction idx -
\* floor(idx); p = 0 gives the minimum, p = 100 the maximum, and the 50th
\* percentile of [10, 20, 30, 40] is 25.
C3_PercentileInterpolates ==
    Returned =>
        IF Len(data) = 1 THEN pct_value = data[1]
        ELSE LET idx == percentile * (Len(data) - 1)       \* in hundredths
                 floor_idx == idx \div 100
                 ceil_idx == (idx + 99) \div 100
                 fraction == idx - 100 * floor_idx
             IN  /\ ceil_idx <= Len(data) - 1
                 /\ 100 * pct_value =
                        100 * data[floor_idx + 1]
                        + fraction * (data[ceil_idx + 1] - data[floor_idx + 1])
                 /\ percentile = 0 => pct_value = data[1]
                 /\ percentile = 100 => pct_value = data[Len(data)]
                 /\ (data = <<Dollars(10), Dollars(20), Dollars(30), Dollars(40)>>
                     /\ percentile = 50) => pct_value = Dollars(25)

C3_Witness ==
    /\ Returned
    /\ data = <<Dollars(10), Dollars(20), Dollars(30), Dollars(40)>>
    /\ percentile = 50
    /\ pct_value = Dollars(25)

----------------------------------------------------------------------------
(* Properties of smart_round and small_round, under SpecRound *)

Abs(x) == IF x < 0 THEN 0 - x ELSE x

\* v is a multiple of step dollars and no other multiple is nearer to x.
NearestMultiple(v, x, step) ==
    /\ v % Dollars(step) = 0
    /\ 2 * Abs(v - x) <= Dollars(step)

\* C4: with 10 or more cleaned prices a tier is rounded to the nearest $5
\* below 100, the nearest $10 in [100, 500) and the nearest $25 from 500 on;
\* 47 becomes 45 and 620 becomes 625.
C4_SmartRound ==
    (Returned /\ n >= 10) =>
        /\ price < Dollars(100) => NearestMultiple(rounded, price, 5)
        /\ (price >= Dollars(100) /\ price < Dollars(500))
               => NearestMultiple(rounded, price, 10)
        /\ price >= Dollars(500) => NearestMultiple(rounded, price, 25)
        /\ price = Dollars(47) => rounded = Dollars(45)
        /\ price = Dollars(620) => rounded = Dollars(625)

C4_Witness ==
    /\ Returned
    /\ n = 10
    /\ price = Dollars(620)
    /\ rounded = Dollars(625)

\* C5 as stated: with fewer than 10 cleaned prices a tier is rounded to the
\* nearest $1 below 50, the nearest $10 in [50, 200) and the nearest $25 from
\* 200 on.
C5_SmallRoundAsStated ==
    (Returned /\ n < 10) =>
        /\ price < Dollars(50) => NearestMultiple(rounded, price, 1)
        /\ (price >= Dollars(50) /\ price < Dollars(200))
               => NearestMultiple(rounded, price, 10)
        /\ price >= Dollars(200) => NearestMultiple(rounded, price, 25)

\* C5 amended: with fewer than 10 cleaned prices a tier is rounded to the
\* nearest $1 below 50, the nearest $5 in [50, 200) and the nearest $10 from
\* 200 on.
C5_SmallRound ==
    (Returned /\ n < 10) =>
        /\ price < Dollars(50) => NearestMultiple(rounded, price, 1)
        /\ (price >= Dollars(50) /\ price < Dollars(200))
               => NearestMultiple(rounded, price, 5)
        /\ price >= Dollars(200) => NearestMultiple(rounded, price, 10)

\* $212 in a small dataset becomes $210: a multiple of 10, not of 25.
C5_Witness ==
    /\ Returned
    /\ n = 9
    /\ price = Dollars(212)
    /\ rounded = Dollars(210)

----------------------------------------------------------------------------
(* Properties of calculate_bid, under SpecBid *)

\* The excess of a parts value over the $3000 threshold, and the premium of a
\* parts value: its bid less the $300 base.
ExcessOf(value) == value - Dollars(3000)
PremiumOf(value) == calculate_bid(value) - Dollars(300)

SlopeAt(value) ==
    IF value <= Dollars(3000) THEN 0
    ELSE 2500 + 60 * ISqrt(ExcessOf(value) \div 15000)

\* From parts value a up to b the bid does not fall, and does not jump: its
\* rise is bounded by the slope times the rise of the parts value (both sides
\* in thousands of ticks, the bound rounded up).
NoFallNoJump(a, b) ==
    /\ calculate_bid(a) <= calculate_bid(b)
    /\ 10 * (calculate_bid(b) - calculate_bid(a))
           <= SlopeAt(b) * ((b - a + 999) \div 1000)

C10_PremiumSublinearAsStated ==
    (Returned /\ parts_value > Dollars(3000)) =>
        \A b \in BidInputs :
            (b >= parts_value /\ ExcessOf(b) % ExcessOf(parts_value) = 0) =>
                PremiumOf(b) <= (ExcessOf(b) \div ExcessOf(parts_value)) * (bid - Dollars(300))

\* The share premium / excess of a parts value above 3000, less its constant
\* 0.25, in ten-thousandths: 0.40 * sqrt(excess / 15000).
VariableShare(value) == (10 * PremiumOf(value)) \div (ExcessOf(value) \div 1000) - 2500

\* C10 amended: the premium grows super-linearly with the excess,
\* premium(k * e) >= k * premium(e) for every k >= 1, strictly for k > 1 (the
\* share premium(e) / e = 0.25 + 0.40 * sqrt(e / 15000) rises with e); only
\* the share's variable part grows sub-linearly, as the square root of e.
C10_PremiumSuperlinear ==
    (Returned /\ parts_value > Dollars(3000)) =>
        \A b \in BidInputs :
            (b >= parts_value /\ ExcessOf(b) % ExcessOf(parts_value) = 0) =>
                LET k == ExcessOf(b) \div ExcessOf(parts_value)
                IN  /\ PremiumOf(b) >= k * (bid - Dollars(300))
                    /\ k > 1 => PremiumOf(b) > k * (bid - Dollars(300))
                    /\ VariableShare(b) * VariableShare(b)
                           = k * VariableShare(parts_value) * VariableShare(parts_value)
                    /\ VariableShare(b) <= k * VariableShare(parts_value)

\* Four times the excess of $1.50 gives more than four times its premium.
C10_Witness ==
    /\ Returned
    /\ parts_value = Dollars(3000) + 15000
    /\ bid - Dollars(300) = 3810
    /\ PremiumOf(Dollars(3000) + 60000) = 15480

----------------------------------------------------------------------------
(* Properties of calculate_recommended_bid, under SpecRecommend *)

\* What the part called name contributes to a tier: nothing when the part is
\* not in the map or its dict lacks the tier.
Contribution(name, tier) ==
    IF name \notin DOMAIN parts_prices THEN 0
    ELSE LET e == parts_prices[name]
         IN  IF "value" \in DOMAIN e THEN e.value
             ELSE IF tier \in DOMAIN e THEN e[tier]
             ELSE 0

TierTotal(tier) ==
    Contribution("engine", tier) + Contribution("transmission", tier)
    + Contribution("alternator", tier)

Tiers == {"low", "average", "high"}

C11_Returned ==
    Returned =>
        \A tier \in Tiers :
            /\ totals[tier] = TierTotal(tier)
            /\ bids[tier] = calculate_bid(TierTotal(tier))

\* C11: calculate_recommended_bid returns totals in which each tier is the
\* sum over the parts of that part's tier, a part without the tier counting
\* 0; each tier's bid is the bid formula applied to that tier's total alone;
\* and the call leaves the map it was given as it was.
C11_TotalsAndBids == []C11_Returned /\ [][parts_prices' = parts_prices]_vars

\* A returned call over three parts, one of them without a high tier, whose
\* tier totals lie on both sides of the $3000 threshold.
C11_Witness ==
    /\ Returned
    /\ DOMAIN parts_prices = {"engine", "transmission", "alternator"}
    /\ DOMAIN parts_prices["transmission"] = {"low", "average"}
    /\ parts_prices["transmission"].low > 0
    /\ totals.low < Dollars(3000)
    /\ totals.average > Dollars(3000)
    /\ totals.high > Dollars(3000)
    /\ totals.high # totals.average
    /\ bids.low = Dollars(300)
    /\ bids.high # bids.average

\* The estimate has the three tiers, in order and not negative.
OrderedEstimate(e) ==
    /\ DOMAIN e = Tiers
    /\ 0 <= e.low /\ e.low <= e.average /\ e.average <= e.high

\* C29: if every estimate handed to calculate_recommended_bid satisfies
\* 0 <= low <= average <= high, then totals.low <= totals.average <=
\* totals.high and bids.low <= bids.average <= bids.high, and every bid is 0
\* or at least $300.
C29_BidOrdering ==
    (Returned /\ \A name \in DOMAIN parts_prices : OrderedEstimate(parts_prices[name])) =>
        /\ totals.low <= totals.average /\ totals.average <= totals.high
        /\ bids.low <= bids.average /\ bids.average <= bids.high
        /\ \A tier \in Tiers : bids[tier] = 0 \/ bids[tier] >= Dollars(300)

\* Three ordered estimates whose totals are 0, at most $3000 and above $3000:
\* the bids are 0, $300 and more than $300.
C29_Witness ==
    /\ Returned
    /\ DOMAIN parts_prices = {"engine", "transmission", "alternator"}
    /\ \A name \in DOMAIN parts_prices : OrderedEstimate(parts_prices[name])
    /\ totals.low = 0
    /\ totals.average = Dollars(1500)
    /\ totals.high > Dollars(3000)
    /\ bids.low = 0
    /\ bids.average = Dollars(300)
    /\ bids.high > Dollars(300)

----------------------------------------------------------------------------
(* Properties of _analyze_prices_with_ai, under SpecAI *)

\* The call is over: it returned or an exception left it.
Finished == pc \in {"done", "raised"}

\* The last model call returned a response.
Responded ==
    /\ Finished
    /\ model_calls # <<>>
    /\ model_calls[Len(model_calls)] = "response"

\* Both attempts raised.
AttemptsExhausted ==
    /\ Finished
    /\ Len(model_calls) = max_retries
    /\ model_calls[max_retries] # "response"

\* The response text holds one JSON document, alone or between two fences.
HasDocument ==
    /\ response.has_text
    /\ \/ Len(response.text) = 1 /\ response.text[1].type \in JsonTypes
       \/ /\ Len(response.text) = 3
          /\ response.text[1].type = "fence"
          /\ response.text[2].type \in JsonTypes
          /\ response.text[3].type = "fence"

Document == IF Len(response.text) = 1 THEN response.text[1] ELSE response.text[2]

IsObject == HasDocument /\ Document.type = "object"

\* A price float() converts; a count the subtraction takes.
NumericPrice(v) == v.type = "number" \/ (v.type = "string" /\ is_digits(v.string))
PriceValue(v) == IF v.type = "number" THEN v.number ELSE Dollars(digits_value(v.string))

\* The response passes every check of the call: an object with the eight
\* keys, a string rating, convertible prices and numeric counts.
Accepted ==
    /\ IsObject
    /\ required_keys \subseteq DOMAIN Document.members
    /\ Document.members[T_confidence_rating].type = "string"
    /\ \A key \in {T_low_price, T_average_price, T_high_price} :
           NumericPrice(Document.members[key])
    /\ Document.members[T_items_analyzed].type = "number"
    /\ Document.members[T_items_filtered_out].type = "number"

HasTiers == {"low", "average", "high"} \subseteq DOMAIN result

Statistical == traditional(raw_items, part_name, minimum_price)

\* The rating of the response is a string that is none of the five levels.
UnrecognisedRating ==
    /\ IsObject
    /\ T_confidence_rating \in DOMAIN Document.members
    /\ Document.members[T_confidence_rating].type = "string"
    /\ lower(Document.members[T_confidence_rating].string) \notin valid_confidence_levels

\* The response has no rating, or one that is no string.
MissingRating ==
    /\ IsObject
    /\ \/ T_confidence_rating \notin DOMAIN Document.members
       \/ Document.members[T_confidence_rating].type # "string"

\* C12: a response whose confidence_rating is missing or is none of the five
\* levels never fails the analysis: the call returns low / average / high and
\* the confidence its callers read is "yellow".  For a rating string that is
\* not recognised, in a response accepted otherwise, the prices and counts of
\* the model are kept and only the rating becomes "yellow"; a missing rating
\* and a rating that is no string give the statistical result, which has no
\* rating and is read as "yellow".
C12_RatingCoercion ==
    (Responded /\ (UnrecognisedRating \/ MissingRating)) =>
        /\ pc = "done"
        /\ HasTiers
        /\ consumed_confidence(result) = T_yellow
        /\ (UnrecognisedRating /\ Accepted) =>
              /\ result.low = PriceValue(Document.members[T_low_price])
              /\ result.average = PriceValue(Document.members[T_average_price])
              /\ result.high = PriceValue(Document.members[T_high_price])
              /\ result.items_analyzed = Document.members[T_items_analyzed].number
              /\ result.confidence_rating = T_yellow
        /\ MissingRating =>
              /\ result = Statistical
              /\ "confidence_rating" \notin DOMAIN result

\* The model rates three listings "purple" with prices 100 / 50 / 70: the
\* prices are returned as given and the rating is "yellow".
C12_Witness ==
    /\ Responded
    /\ Len(raw_items) = 3
    /\ UnrecognisedRating
    /\ Document.members[T_confidence_rating].string = T_purple
    /\ result.low = Dollars(100)
    /\ result.average = Dollars(50)
    /\ result.high = Dollars(70)
    /\ result.confidence_rating = T_yellow

\* The model call failed: both attempts raised, or the response was not
\* accepted.
ModelFailed == AttemptsExhausted \/ (Responded /\ ~Accepted)

\* C13: no exception caused by the model or its output leaves the call: for
\* every model outcome (both attempts raised, text that is no JSON after the
\* fences are stripped, JSON that is no object, a missing key, a price or a
\* count that is no number, a rating that is no string) the call returns
\* low / average / high, produced by the statistical analyzer.
C13_NoExceptionLeaves ==
    Finished =>
        /\ pc = "done"
        /\ HasTiers
        /\ ModelFailed => result = Statistical

\* C14: whenever the AI path is not used or fails (flag off, model not
\* configured, both attempts raised, response not parsed or not valid) on a
\* non-empty listing set, the call returns exactly what
\* _analyze_price_distribution returns for the total prices and titles of the
\* same listings, the same part name and minimum price; with the flag off or
\* no model configured the model is never called.
C14_FallbackEquivalence ==
    (Finished /\ raw_items # <<>>) =>
        /\ (ai_unavailable(gemini_model, use_ai_analysis) \/ ModelFailed) =>
              pc = "done" /\ result = Statistical
        /\ ai_unavailable(gemini_model, use_ai_analysis) => model_calls = <<>>

\* C15: within one call the model is called at most twice; the second call
\* is made only after the first raised; a call that returned a response is
\* followed by no other call, whatever the response; and after two calls that
\* raised the statistical result is returned.
C15_RetryBudget ==
    /\ Len(model_calls) <= 2
    /\ \A i \in 1..(Len(model_calls) - 1) : model_calls[i] # "response"
    /\ (model_calls # <<>> /\ model_calls[Len(model_calls)] = "response") => Finished
    /\ AttemptsExhausted => pc = "done" /\ result = Statistical

\* C16: every result the call returns from an accepted response for 3 or more
\* listings has low <= average <= high, whatever numbers the model gave.
C16_TierOrderingOnAIPath ==
    (pc = "done" /\ Responded /\ Accepted /\ Len(raw_items) >= 3) =>
        (result.low <= result.average /\ result.average <= result.high)

\* C19: with 0, 1 or 2 listings no model call is made and the result is the
\* shortcut, all tiers 0 for none and the mean of the total prices for 1 or
\* 2, also when AI analysis is on and the model is configured.
C19_FewListingsNoModelCall ==
    (Finished /\ Len(raw_items) <= 2) =>
        /\ model_calls = <<>>
        /\ pc = "done"
        /\ result.low = result.average /\ result.average = result.high
        /\ result.low * Len(raw_items) = SumSeq(total_prices(raw_items))

----------------------------------------------------------------------------
(* Properties of search_ebay_parts, under SpecScan *)

Scanned == pc = "done" /\ parts_list # <<>>

\* The part at position k was never searched, or its search or analysis
\* failed.
SearchFailed(k) ==
    \/ k \notin DOMAIN part_searches
    \/ part_searches[k].outcome \in {"non200", "exception", "no_listings", "analysis_raised"}

HasEntry(k) == parts_list[k].search_query \in DOMAIN parts_prices

Entry(k) == parts_prices[parts_list[k].search_query]

\* C20: after any scan the returned map has an entry for every part of the
\* parts list; the entry of a part whose search or analysis failed (status
\* other than 200, exception, no listings, no token) has low = average =
\* high = 0, and the entry of every other part is the result of its own
\* search.
C20_EveryPartHasEntry ==
    Scanned =>
        \A k \in 1..Len(parts_list) :
            /\ HasEntry(k)
            /\ SearchFailed(k) =>
                   Entry(k).low = 0 /\ Entry(k).average = 0 /\ Entry(k).high = 0
            /\ ~SearchFailed(k) =>
                   /\ Entry(k).low = part_searches[k].result.low
                   /\ Entry(k).average = part_searches[k].result.average
                   /\ Entry(k).high = part_searches[k].result.high

\* The statistical analysis of the listings of the part at position k.
StatisticalOf(k) ==
    traditional(PartListings[k], parts_list[k].search_query,
                get(parts_list[k], "min_price", 0))

\* The part at position k was analysed and its result built from the
\* statistical analysis.
StatisticallyAnalysed(k) ==
    /\ k \in DOMAIN part_searches
    /\ part_searches[k].outcome = "analysed"
    /\ part_searches[k].result = part_result(StatisticalOf(k), PartListings[k])

\* C28: the count of filtered-out listings reported for a part is >= 0 and is
\* the number of listings the keyword, floor and IQR stages removed, so that
\* it and the cleaned count add up to the number of listings; it is the
\* items_filtered_out of the entry of the part in the map search_ebay_parts
\* returns, also when the analysis was the statistical one.
C28_RemovalAccounting ==
    Scanned =>
        \A k \in 1..Len(parts_list) :
            StatisticallyAnalysed(k) =>
                /\ StatisticalOf(k).items_removed >= 0
                /\ StatisticalOf(k).items_removed + StatisticalOf(k).cleaned_count
                       = Len(PartListings[k])
                /\ Entry(k).items_filtered_out = StatisticalOf(k).items_removed

\* C23: the rating read from every entry of the map of a scan is one of red,
\* orange, yellow, light_green, dark_green; the entry of a failed search has
\* no rating of its own and is read as yellow, and so is the entry of a
\* statistical analysis; a rating other than yellow comes only from an
\* accepted response of the model.
C23_ConfidenceLevels ==
    Scanned =>
        \A k \in 1..Len(parts_list) :
            HasEntry(k) =>
                /\ read_confidence(Entry(k)) \in
                       {<<"r","e","d">>, <<"o","r","a","n","g","e">>,
                        <<"y","e","l","l","o","w">>,
                        <<"l","i","g","h","t","_","g","r","e","e","n">>,
                        <<"d","a","r","k","_","g","r","e","e","n">>}
                /\ SearchFailed(k) =>
                       /\ "confidence_rating" \notin DOMAIN Entry(k)
                       /\ read_confidence(Entry(k)) = <<"y","e","l","l","o","w">>
                /\ StatisticallyAnalysed(k) =>
                       read_confidence(Entry(k)) = <<"y","e","l","l","o","w">>
                /\ read_confidence(Entry(k)) # <<"y","e","l","l","o","w">> =>
                       /\ part_searches[k].outcome = "analysed"
                       /\ ~StatisticallyAnalysed(k)

\* A scan of three parts: a failed search, a statistical analysis and an
\* accepted response rated dark_green.
C23_Witness ==
    /\ Scanned
    /\ Len(parts_list) = 3
    /\ DOMAIN part_searches = {1, 2, 3}
    /\ part_searches[1].outcome = "non200"
    /\ read_confidence(Entry(1)) = T_yellow
    /\ StatisticallyAnalysed(2)
    /\ read_confidence(Entry(2)) = T_yellow
    /\ part_searches[3].outcome = "analysed"
    /\ read_confidence(Entry(3)) = T_dark_green

\* C21: in concurrent mode the scan never waits forever on one part: also
\* when the search of a part does not finish (its worker hangs in the call of
\* the model) the call returns, that part recorded with zeros.  Checked under
\* SpecScanFair.
C21_ScanReturns == (pc = "concurrent") ~> (pc = "done")

----------------------------------------------------------------------------
(* Properties of the analyses run by the pool, under SpecLog *)

\* The lines an analysis has written to the log.
LinesOf(k) == {a \in 1..Len(results_text) : results_text[a].part = k}

\* C22: the analyses the pool runs at once share no object: the lines each
\* one writes to the log stand together, with no line of another analysis
\* between them.
C22_AnalysesShareNothing ==
    \A k \in DOMAIN futures :
        \A a \in LinesOf(k) : \A c \in LinesOf(k) :
            \A b \in a..c : b \in LinesOf(k)

----------------------------------------------------------------------------
(* Properties of the scan history, under SpecHistory *)

\* C30: whatever is loaded, added, removed or cleared, the history holds at
\* most 50 entries; add_to_vin_history puts the new entry first and keeps the
\* entries that were there in their order, dropping those past the fiftieth.
C30_HistoryBound ==
    /\ [](Len(vin_history) <= max_history)
    /\ [][scans' = scans + 1 =>
             /\ vin_history'[1] = NewEntry
             /\ Len(vin_history') = Min2(Len(vin_history) + 1, max_history)
             /\ \A k \in 2..Len(vin_history') : vin_history'[k] = vin_history[k - 1]]_vars

\* A scan was added to a full history: the new entry is first, the oldest
\* of the fifty loaded is gone.
C30_Witness ==
    /\ pc = "mainloop"
    /\ scans = 1
    /\ Len(vin_history) = max_history
    /\ vin_history[1] = max_history + MaxExcess + 1
    /\ vin_history[2] = max_history
    /\ vin_history[max_history] = 2

=============================================================================
